---- MODULE Spec2Model ----
(***************************************************************************)
(* Z-Eval: the batch evaluation routine runOptimizedBatchEvaluation of     *)
(* src/app/services/evaluationService.ts, with the per-round scoring       *)
(* routine evaluateWithSearchResults it calls.                             *)
(*                                                                         *)
(* One run is modelled.  Its inputs (queries, searchEngines, dimensions,   *)
(* rounds) are drawn in Init; the two HTTP services are the environment:   *)
(* each outstanding request is answered by a Resolve or a Reject step.     *)
(* Execution is a single event loop, so every action is the code between   *)
(* two suspension points (await) or one loop head.                         *)
(*                                                                         *)
(* Callbacks (onProgress, onSearchResult) are the application's state      *)
(* setters (src/app/page.tsx:48-80); they do not throw.  A search payload  *)
(* is a JSON object as declared by WebSearchResponse.  Under these two     *)
(* facts the catch block of the round loop (evaluationService.ts:348-351)  *)
(* is never entered: evaluateWithSearchResults catches every error of a    *)
(* dimension itself, so it has no action here.                             *)
(*                                                                         *)
(* Queries and engines are identified by their position in the input       *)
(* lists; scores are whole numbers, weights are counted in steps of 0.05   *)
(* (the step of the weight input, PromptEditor.tsx:446) and a weighted     *)
(* score is <<numerator, denominator, above>>: the exact fraction, and     *)
(* whether the double the code computes lies above it.                     *)
(*                                                                         *)
(* The pure functions of the services are checked one application at a     *)
(* time: fn names the function, arg holds its arguments, drawn in the      *)
(* initial state, and the Apply action stores the result in ret.           *)
(***************************************************************************)
EXTENDS Integers, Sequences, FiniteSets, TLC

\* ---------------------------------------------------------------- bounds
MaxQueries == 2
MaxEngines == 2
MaxRounds == 2
MaxDims == 2
MaxScore == 1
MaxResults == 1
\* in a run with faults, at most this many calls deviate from the nominal
\* outcome (a search answered with MaxResults items, a reply scored MaxScore)
MaxDeviations == 2
\* a run with faults plans at most this many searches, as many rounds and
\* as many scoring requests
MaxCalls == 4
\* the long fault-free run: LargeQueries queries, one engine, LargeRounds rounds
LargeQueries == 41
LargeRounds == 5
\* calculateWeightedScore: weights are 0..MaxWeight steps of 0.05, scores
\* are 0..MaxPoints
MaxWeight == 3
MaxPoints == 3
\* a text given to a pure function has at most MaxText characters
MaxText == 5
\* a raw search payload has at most MaxItems items
MaxItems == 2
\* a field of the API configuration has at most MaxConfigText characters
MaxConfigText == 2
\* a streamed response has at most MaxStream lines and chunk ends together
MaxStream == 5
\* the body served to one whole call has at most MaxBody lines and chunk ends
MaxBody == 3
\* the batch query input has at most MaxBatchText characters
MaxBatchText == 6


VARIABLES
  queries,          \* the query list (query ids, in input order)
  searchEngines,    \* the engine list (records with an id)
  dimensions,       \* the dimension list (name, weight, enabled)
  rounds,           \* the configured round count
  deviations,       \* environment: calls that may still deviate from nominal
  pc,               \* position of the routine
  status,           \* "running", "returned" or "raised"
  qi,               \* index of the current query
  searchResults,    \* per engine position: state of its search promise
  ei,               \* index of the engine being scored
  round,            \* current round
  di,               \* index into the enabled dimensions of the current round
  scores,           \* scores map of the current round (dimension name -> score)
  results,          \* the result list
  totalTasks,
  completedTasks,
  evalInFlight,     \* number of scoring requests awaiting their response
  progressLog,      \* the onProgress invocations, in order
  searchResultLog,  \* the onSearchResult invocations, in order
  searchOutcomes,   \* history: outcome of every completed search call
  evalLog,          \* history: every scoring request sent, in order, with the
                    \* delays waited and the rounds completed before it
  delaysSince,      \* history: delays waited since the last scoring request
  replies,          \* history: outcome per enabled dimension of this round
  replyLog,         \* history: the replies behind each entry of results
  searchRequests,   \* history: every search request sent (query, engine)
  \* the state of the page (src/app/page.tsx, ConfigPanel.tsx)
  errorMessage,       \* the message shown by the configuration panel, <<>> for ''
  isEvaluating,
  evaluationResults,  \* the results shown
  pageSearchResults,  \* the page's searchResults list
  evaluationProgress, \* the progress shown
  \* one application of a pure function
  fn,               \* the function applied
  arg,              \* its arguments
  ret,              \* its result, none before the application
  \* the streamed read of callEvaluationApi
  chunksRead,       \* the chunks read from the response body so far
  mergedContent,    \* mergedResponse.choices[0].message.content
  sseMessages       \* the onSseMessage invocations, in order

streamVars == <<chunksRead, mergedContent, sseMessages>>

pureVars == <<fn, arg, ret, streamVars>>

runVars == <<queries, searchEngines, dimensions, rounds, deviations, pc, status,
             qi, searchResults, ei, round, di, scores, results, totalTasks,
             completedTasks, evalInFlight, progressLog, searchResultLog,
             searchOutcomes, evalLog, delaysSince, replies, replyLog,
             searchRequests>>

uiVars == <<errorMessage, isEvaluating, evaluationResults, pageSearchResults,
            evaluationProgress>>

vars == <<queries, searchEngines, dimensions, rounds, deviations, pc, status,
          qi, searchResults, ei, round, di, scores, results, totalTasks,
          completedTasks, evalInFlight, progressLog, searchResultLog,
          searchOutcomes, evalLog, delaysSince, replies, replyLog,
          searchRequests, errorMessage, isEvaluating,
          evaluationResults, pageSearchResults, evaluationProgress,
          fn, arg, ret, chunksRead, mergedContent, sseMessages>>

\* ------------------------------------------------------------ data model
\* the dimensions a list is built from: two names, two weights, and a
\* disabled dimension that shares its name with an enabled one
Dimension ==
  { [name |-> "a", weight |-> 1, enabled |-> TRUE],
    [name |-> "b", weight |-> 2, enabled |-> TRUE],
    [name |-> "a", weight |-> 1, enabled |-> FALSE] }

SeqsUpTo(S, n) == UNION { [1..k -> S] : k \in 0..n }

DimensionLists == SeqsUpTo(Dimension, MaxDims)

\* dimensions.filter(d => d.enabled)
EnabledDimensions(dims) == SelectSeq(dims, LAMBDA d : d.enabled)

\* the states of one search promise of searchPromises
Idle == [st |-> "idle", ok |-> FALSE, results |-> 0]
Pending == [st |-> "pending", ok |-> FALSE, results |-> 0]
\* { engine, searchResponse: null }
Failed == [st |-> "done", ok |-> FALSE, results |-> 0]
\* { engine, searchResponse } with n result items
Fulfilled(n) == [st |-> "done", ok |-> TRUE, results |-> n]

\* ------------------------------------------------------- pure functions
RECURSIVE GCD(_, _)
GCD(a, b) == IF b = 0 THEN a ELSE GCD(b, a % b)

\* a non-negative rational, reduced
Ratio(n, d) == LET g == GCD(n, d) IN <<n \div g, d \div g>>

\* the numerator without the weights
RECURSIVE WeightedSum_Unweighted(_, _, _)
WeightedSum_Unweighted(sc, dims, i) ==
  IF i > Len(dims) THEN 0
  ELSE (IF dims[i].name \in DOMAIN sc THEN sc[dims[i].name] ELSE 0)
       + WeightedSum_Unweighted(sc, dims, i + 1)

RECURSIVE WeightedSum(_, _, _)
WeightedSum(sc, dims, i) ==
  IF i > Len(dims) THEN 0
  ELSE (IF dims[i].name \in DOMAIN sc THEN sc[dims[i].name] * dims[i].weight ELSE 0)
       + WeightedSum(sc, dims, i + 1)

\* the weight of a dimension without a score is counted too
RECURSIVE TotalWeight_All(_, _, _)
TotalWeight_All(sc, dims, i) ==
  IF i > Len(dims) THEN 0
  ELSE dims[i].weight + TotalWeight_All(sc, dims, i + 1)

RECURSIVE TotalWeight(_, _, _)
TotalWeight(sc, dims, i) ==
  IF i > Len(dims) THEN 0
  ELSE (IF dims[i].name \in DOMAIN sc THEN dims[i].weight ELSE 0)
       + TotalWeight(sc, dims, i + 1)

\* the <<score, weight>> pairs the loop adds with a weight above zero, in
\* order (adding score * 0 and 0 changes neither sum)
RECURSIVE Counted(_, _, _)
Counted(sc, dims, i) ==
  IF i > Len(dims) THEN <<>>
  ELSE (IF dims[i].name \in DOMAIN sc /\ dims[i].weight > 0
        THEN << <<sc[dims[i].name], dims[i].weight>> >> ELSE <<>>)
       \o Counted(sc, dims, i + 1)

\* weightedSum / totalWeight on IEEE doubles.  When every counted score is
\* the same whole number k the exact quotient is k; the sums are rounded, and
\* the double quotient is above k (3.0000000000000004 for 3 * 0.05 / 0.05)
\* exactly when k = 3 and the counted weights are one of these lists.  Scores
\* 0, 1, 2 and 4 never exceed.  Tabulated for weights of at most 4 steps of
\* 0.05, scores of at most 4 and at most three counted dimensions.
DoubleAboveWeights ==
  { <<1>>, <<2>>, <<4>>, <<1, 1>>, <<1, 4>>, <<2, 2>>, <<3, 4>>, <<4, 1>>,
    <<4, 3>>, <<4, 4>>, <<1, 1, 2>>, <<1, 2, 1>>, <<1, 2, 2>>, <<1, 2, 4>>,
    <<1, 3, 4>>, <<1, 4, 1>>, <<1, 4, 2>>, <<1, 4, 3>>, <<2, 1, 1>>,
    <<2, 1, 2>>, <<2, 1, 4>>, <<2, 2, 1>>, <<2, 2, 3>>, <<2, 2, 4>>,
    <<2, 3, 2>>, <<2, 4, 1>>, <<2, 4, 2>>, <<2, 4, 4>>, <<3, 1, 4>>,
    <<3, 2, 2>>, <<3, 4, 1>>, <<3, 4, 2>>, <<4, 1, 1>>, <<4, 1, 2>>,
    <<4, 1, 3>>, <<4, 2, 1>>, <<4, 2, 2>>, <<4, 2, 4>>, <<4, 3, 1>>,
    <<4, 3, 2>>, <<4, 4, 2>> }

DoubleAbove(sc, dims) ==
  LET counted == Counted(sc, dims, 1)
  IN /\ \A i \in 1..Len(counted) : counted[i][1] = 3
     /\ [i \in 1..Len(counted) |-> counted[i][2]] \in DoubleAboveWeights

calculateWeightedScore(sc, dims) ==
  LET totalWeight == TotalWeight(sc, dims, 1)
      weightedSum == WeightedSum(sc, dims, 1)
  IN IF totalWeight > 0
     THEN Ratio(weightedSum, totalWeight)
          \o <<IF DoubleAbove(sc, dims) THEN 1 ELSE 0>>
     ELSE <<0, 1, 0>>

\* Math.round((completed / total) * 100) on IEEE doubles.  The product is the
\* exact percentage rounded half up, except for the ties whose double product
\* falls just below the half (57.49999999999999 for 23/40); these are all
\* such pairs for total < 260.
DoubleBelowTie(completed, total) ==
  \/ 40 * completed = 23 * total
  \/ total = 200 /\ completed \in {29, 57, 113}

\* Math.floor in place of Math.round
RoundPercent_Floor(completed, total) == (100 * completed) \div total

\* the percentage that is left
RoundPercent_Remaining(completed, total) ==
  100 - (200 * completed + total) \div (2 * total)

RoundPercent(completed, total) ==
  LET exact == (200 * completed + total) \div (2 * total)
  IN IF DoubleBelowTie(completed, total) THEN exact - 1 ELSE exact

\* ------------------------------------------------------------------ Init
\* no pure function is being applied
None == [none |-> TRUE]

NoStream ==
  /\ chunksRead = 0
  /\ mergedContent = <<>>
  /\ sseMessages = <<>>

NoCall ==
  /\ fn = "none"
  /\ arg = None
  /\ ret = None
  /\ NoStream

\* the page as startEvaluation leaves it when it calls the routine
\* (ConfigPanel.tsx:160-166): message cleared, isEvaluating set, results,
\* search results and progress emptied
PageDuringRun ==
  /\ errorMessage = <<>>
  /\ isEvaluating = TRUE
  /\ evaluationResults = <<>>
  /\ pageSearchResults = <<>>
  /\ evaluationProgress = None

InitRun ==
  /\ pc = "query"
  /\ status = "running"
  /\ qi = 1
  /\ searchResults = [e \in 1..Len(searchEngines) |-> Idle]
  /\ ei = 1
  /\ round = 1
  /\ di = 1
  /\ scores = <<>>
  /\ results = <<>>
  /\ totalTasks = Len(queries) * Len(searchEngines) * rounds
  /\ completedTasks = 0
  /\ evalInFlight = 0
  /\ progressLog = <<>>
  /\ searchResultLog = <<>>
  /\ searchOutcomes = {}
  /\ evalLog = <<>>
  /\ delaysSince = 0
  /\ replies = <<>>
  /\ replyLog = <<>>
  /\ searchRequests = <<>>

\* every small input, any pattern of failures
InitSmall ==
  /\ \E nq \in 0..MaxQueries : queries = [i \in 1..nq |-> i]
  /\ \E ne \in 0..MaxEngines : searchEngines = [i \in 1..ne |-> [id |-> i]]
  /\ rounds \in 0..MaxRounds
  /\ dimensions \in DimensionLists
  /\ Len(queries) * Len(searchEngines) <= MaxCalls
  /\ Len(queries) * Len(searchEngines) * rounds <= MaxCalls
  /\ Len(queries) * Len(searchEngines) * rounds * Len(EnabledDimensions(dimensions)) <= MaxCalls
  /\ deviations = MaxDeviations
  /\ InitRun
  /\ PageDuringRun
  /\ NoCall

\* one long run in which every call succeeds
InitLarge ==
  /\ queries = [i \in 1..LargeQueries |-> i]
  /\ searchEngines = <<[id |-> 1]>>
  /\ rounds = LargeRounds
  /\ dimensions = <<[name |-> "a", weight |-> 1, enabled |-> TRUE]>>
  /\ deviations = 0
  /\ InitRun
  /\ PageDuringRun
  /\ NoCall

Init == InitSmall \/ InitLarge

\* the page as first rendered (page.tsx:16-45, ConfigPanel.tsx:105-107), the
\* routine not called
NoPage ==
  /\ errorMessage = <<>>
  /\ isEvaluating = FALSE
  /\ evaluationResults = <<>>
  /\ pageSearchResults = <<>>
  /\ evaluationProgress = None

NoRun ==
  /\ queries = <<>>
  /\ searchEngines = <<>>
  /\ dimensions = <<>>
  /\ rounds = 0
  /\ deviations = 0
  /\ pc = "idle"
  /\ status = "idle"
  /\ qi = 1
  /\ searchResults = <<>>
  /\ ei = 1
  /\ round = 1
  /\ di = 1
  /\ scores = <<>>
  /\ results = <<>>
  /\ totalTasks = 0
  /\ completedTasks = 0
  /\ evalInFlight = 0
  /\ progressLog = <<>>
  /\ searchResultLog = <<>>
  /\ searchOutcomes = {}
  /\ evalLog = <<>>
  /\ delaysSince = 0
  /\ replies = <<>>
  /\ replyLog = <<>>
  /\ searchRequests = <<>>

\* ------------------------------------------- calculateWeightedScore alone
Names == {"a", "b"}

\* a scores map: Record<string, number>
ScoreMaps == UNION { [D -> 0..MaxPoints] : D \in SUBSET Names }

\* the lists of at most n dimensions (the function does not read enabled)
WeightedDimensions(n) ==
  SeqsUpTo([name : Names, weight : 0..MaxWeight, enabled : {TRUE}], n)

InitWeighted ==
  /\ fn = "calculateWeightedScore"
  /\ arg \in [scores : ScoreMaps, dimensions : WeightedDimensions(MaxDims)]
  /\ ret = None
  /\ NoStream
  /\ NoRun
  /\ NoPage

ApplyCalculateWeightedScore ==
  /\ fn = "calculateWeightedScore"
  /\ ret = None
  /\ ret' = [value |-> calculateWeightedScore(arg.scores, arg.dimensions)]
  /\ UNCHANGED <<runVars, uiVars, streamVars, fn, arg>>

SpecWeighted == InitWeighted /\ [][ApplyCalculateWeightedScore]_vars

\* --------------------------------------------------------------- actions
\* a failed engine is not searched again on the later queries
StartQuery_KeepFailed ==
  /\ pc = "query"
  /\ qi <= Len(queries)
  /\ searchResults' = [e \in 1..Len(searchEngines) |->
                         IF searchResults[e] = Failed THEN Failed ELSE Pending]
  /\ searchRequests' = searchRequests \o
       SelectSeq([e \in 1..Len(searchEngines) |-> [query |-> qi, engine |-> e]],
                 LAMBDA r : searchResults[r.engine] # Failed)
  /\ pc' = "searching"
  /\ UNCHANGED <<pureVars, uiVars,
                 queries, searchEngines, dimensions, rounds, deviations, status,
                 qi, ei, round, di, scores, results, totalTasks, completedTasks,
                 evalInFlight, progressLog, searchResultLog, searchOutcomes,
                 evalLog, delaysSince, replies, replyLog>>

\* for (const query of queries): searchEngines.map(async ...) runs every
\* async body up to its first await, so every fetch is sent here
StartQuery ==
  /\ pc = "query"
  /\ qi <= Len(queries)
  /\ searchResults' = [e \in 1..Len(searchEngines) |-> Pending]
  /\ searchRequests' = searchRequests \o
       [e \in 1..Len(searchEngines) |-> [query |-> qi, engine |-> e]]
  /\ pc' = "searching"
  /\ UNCHANGED <<pureVars, uiVars,
                 queries, searchEngines, dimensions, rounds, deviations, status,
                 qi, ei, round, di, scores, results, totalTasks, completedTasks,
                 evalInFlight, progressLog, searchResultLog, searchOutcomes,
                 evalLog, delaysSince, replies, replyLog>>

\* the response is returned without the onSearchResult call
SearchResolve_NoCallback(e, n) ==
  /\ pc = "searching"
  /\ searchResults[e].st = "pending"
  /\ deviations > 0 \/ n = MaxResults
  /\ deviations' = IF n = MaxResults THEN deviations ELSE deviations - 1
  /\ searchResults' = [searchResults EXCEPT ![e] = Fulfilled(n)]
  /\ searchOutcomes' = searchOutcomes \cup {[query |-> qi, engine |-> e, ok |-> TRUE]}
  /\ UNCHANGED <<pureVars, uiVars, searchRequests,
                 queries, searchEngines, dimensions, rounds, pc, status,
                 qi, ei, round, di, scores, results, totalTasks, completedTasks,
                 evalInFlight, progressLog, searchResultLog, evalLog, delaysSince,
                 replies, replyLog>>

\* the page's onSearchResult: a result for an engine and a query it already
\* holds is dropped
handleSearchResult(prev, searchResult) ==
  IF \E i \in DOMAIN prev : /\ prev[i].engineId = searchResult.engineId
                            /\ prev[i].query = searchResult.query
  THEN prev
  ELSE Append(prev, searchResult)

\* callWebSearchApi returns a response with n result items; onSearchResult is
\* invoked and the promise fulfils with { engine, searchResponse }
SearchResolve(e, n) ==
  /\ pc = "searching"
  /\ searchResults[e].st = "pending"
  /\ deviations > 0 \/ n = MaxResults
  /\ deviations' = IF n = MaxResults THEN deviations ELSE deviations - 1
  /\ searchResults' = [searchResults EXCEPT ![e] = Fulfilled(n)]
  /\ searchResultLog' = Append(searchResultLog,
        [engineId |-> searchEngines[e].id, query |-> queries[qi], searchResults |-> n])
  /\ pageSearchResults' = handleSearchResult(pageSearchResults,
        [engineId |-> searchEngines[e].id, query |-> queries[qi], searchResults |-> n])
  /\ searchOutcomes' = searchOutcomes \cup {[query |-> qi, engine |-> e, ok |-> TRUE]}
  /\ UNCHANGED <<pureVars, errorMessage, isEvaluating, evaluationResults,
                 evaluationProgress, searchRequests,
                 queries, searchEngines, dimensions, rounds, pc, status,
                 qi, ei, round, di, scores, results, totalTasks, completedTasks,
                 evalInFlight, progressLog, evalLog, delaysSince, replies, replyLog>>

\* the search error is not caught: Promise.all rejects and the routine raises
SearchReject_Rethrow(e) ==
  /\ pc = "searching"
  /\ searchResults[e].st = "pending"
  /\ deviations > 0
  /\ deviations' = deviations - 1
  /\ searchResults' = [searchResults EXCEPT ![e] = Failed]
  /\ searchOutcomes' = searchOutcomes \cup {[query |-> qi, engine |-> e, ok |-> FALSE]}
  /\ pc' = "done"
  /\ status' = "raised"
  /\ UNCHANGED <<pureVars, uiVars, searchRequests,
                 queries, searchEngines, dimensions, rounds,
                 qi, ei, round, di, scores, results, totalTasks, completedTasks,
                 evalInFlight, progressLog, searchResultLog, evalLog, delaysSince,
                 replies, replyLog>>

\* a failed request is sent once more
SearchReject_Retry(e) ==
  /\ pc = "searching"
  /\ searchResults[e].st = "pending"
  /\ deviations > 0
  /\ deviations' = deviations - 1
  /\ searchRequests' = Append(searchRequests, [query |-> qi, engine |-> e])
  /\ UNCHANGED <<pureVars, uiVars,
                 queries, searchEngines, dimensions, rounds, pc, status,
                 qi, searchResults, ei, round, di, scores, results, totalTasks,
                 completedTasks, evalInFlight, progressLog, searchResultLog,
                 searchOutcomes, evalLog, delaysSince, replies, replyLog>>

\* callWebSearchApi throws (network error, non-2xx, bad body); the catch
\* block fulfils the promise with { engine, searchResponse: null }
SearchReject(e) ==
  /\ pc = "searching"
  /\ searchResults[e].st = "pending"
  /\ deviations > 0
  /\ deviations' = deviations - 1
  /\ searchResults' = [searchResults EXCEPT ![e] = Failed]
  /\ searchOutcomes' = searchOutcomes \cup {[query |-> qi, engine |-> e, ok |-> FALSE]}
  /\ UNCHANGED <<pureVars, uiVars, searchRequests,
                 queries, searchEngines, dimensions, rounds, pc, status,
                 qi, ei, round, di, scores, results, totalTasks, completedTasks,
                 evalInFlight, progressLog, searchResultLog, evalLog, delaysSince,
                 replies, replyLog>>

\* the scoring phase starts as soon as one search has completed
AwaitSearches_Any ==
  /\ pc = "searching"
  /\ \E e \in DOMAIN searchResults : searchResults[e].st = "done"
  /\ pc' = "engine"
  /\ ei' = 1
  /\ UNCHANGED <<pureVars, uiVars, searchRequests,
                 queries, searchEngines, dimensions, rounds, deviations, status,
                 qi, searchResults, round, di, scores, results, totalTasks,
                 completedTasks, evalInFlight, progressLog, searchResultLog,
                 searchOutcomes, evalLog, delaysSince, replies, replyLog>>

\* await Promise.all(searchPromises)
AwaitSearches ==
  /\ pc = "searching"
  /\ \A e \in DOMAIN searchResults : searchResults[e].st = "done"
  /\ pc' = "engine"
  /\ ei' = 1
  /\ UNCHANGED <<pureVars, uiVars, searchRequests,
                 queries, searchEngines, dimensions, rounds, deviations, status,
                 qi, searchResults, round, di, scores, results, totalTasks,
                 completedTasks, evalInFlight, progressLog, searchResultLog,
                 searchOutcomes, evalLog, delaysSince, replies, replyLog>>

\* every engine is scored, also one without a response
SkipEngine_Never(sr) == FALSE

\* if (!searchResponse) continue
SkipEngine(sr) == ~sr.ok

\* the loop leaves for the next query after the first engine
EngineLoop_OneEngine ==
  /\ pc = "engine"
  /\ IF ei > 1 \/ ei > Len(searchResults)
       THEN /\ qi' = qi + 1
            /\ pc' = "query"
            /\ UNCHANGED <<ei, round>>
       ELSE IF SkipEngine(searchResults[ei])
         THEN /\ ei' = ei + 1
              /\ UNCHANGED <<qi, pc, round>>
         ELSE /\ round' = 1
              /\ pc' = "round"
              /\ UNCHANGED <<qi, ei>>
  /\ UNCHANGED <<pureVars, uiVars, searchRequests,
                 queries, searchEngines, dimensions, rounds, deviations, status,
                 searchResults, di, scores, results, totalTasks, completedTasks,
                 evalInFlight, progressLog, searchResultLog, searchOutcomes,
                 evalLog, delaysSince, replies, replyLog>>

\* for (const { engine, searchResponse } of searchResults): the loop head,
\* the skip of an engine without a response, and the exit to the next query
EngineLoop ==
  /\ pc = "engine"
  /\ IF ei > Len(searchResults)
       THEN /\ qi' = qi + 1
            /\ pc' = "query"
            /\ UNCHANGED <<ei, round>>
       ELSE IF SkipEngine(searchResults[ei])
         THEN /\ ei' = ei + 1
              /\ UNCHANGED <<qi, pc, round>>
         ELSE /\ round' = 1
              /\ pc' = "round"
              /\ UNCHANGED <<qi, ei>>
  /\ UNCHANGED <<pureVars, uiVars, searchRequests,
                 queries, searchEngines, dimensions, rounds, deviations, status,
                 searchResults, di, scores, results, totalTasks, completedTasks,
                 evalInFlight, progressLog, searchResultLog, searchOutcomes,
                 evalLog, delaysSince, replies, replyLog>>

\* for (let round = 1; round <= rounds; round++): the loop head; a round
\* starts with the onProgress call and enters evaluateWithSearchResults
RoundLoop ==
  /\ pc = "round"
  /\ IF round > rounds
       THEN /\ ei' = ei + 1
            /\ pc' = "engine"
            /\ UNCHANGED <<progressLog, evaluationProgress, scores, di, replies>>
       ELSE /\ progressLog' = Append(progressLog,
                 [currentEngine |-> searchEngines[ei].id, currentRound |-> round,
                  totalRounds |-> rounds,
                  progress |-> RoundPercent(completedTasks, totalTasks)])
            /\ evaluationProgress' =
                 [currentEngine |-> searchEngines[ei].id, currentRound |-> round,
                  totalRounds |-> rounds,
                  progress |-> RoundPercent(completedTasks, totalTasks)]
            /\ scores' = <<>>
            /\ replies' = <<>>
            /\ di' = 1
            /\ pc' = "dimension"
            /\ UNCHANGED ei
  /\ UNCHANGED <<pureVars, errorMessage, isEvaluating, evaluationResults,
                 pageSearchResults, searchRequests,
                 queries, searchEngines, dimensions, rounds, deviations, status,
                 qi, searchResults, round, results, totalTasks, completedTasks,
                 evalInFlight, searchResultLog, searchOutcomes, evalLog,
                 delaysSince, replyLog>>

\* the prompt is built from any result list
buildEvaluationPromptThrows_Never(sr) == FALSE

\* buildEvaluationPrompt throws when the result list is missing or empty
buildEvaluationPromptThrows(sr) == sr.results = 0

\* buildEvaluationPrompt throws on an empty result list; the per-dimension
\* catch sets the score to 0 and the loop goes on
PromptFails ==
  /\ pc = "dimension"
  /\ di <= Len(EnabledDimensions(dimensions))
  /\ buildEvaluationPromptThrows(searchResults[ei])
  /\ scores' = (EnabledDimensions(dimensions)[di].name :> 0) @@ scores
  /\ replies' = Append(replies, [ok |-> FALSE, score |-> 0])
  /\ di' = di + 1
  /\ UNCHANGED <<pureVars, uiVars, searchRequests,
                 queries, searchEngines, dimensions, rounds, deviations, pc, status,
                 qi, searchResults, ei, round, results, totalTasks, completedTasks,
                 evalInFlight, progressLog, searchResultLog, searchOutcomes,
                 evalLog, delaysSince, replyLog>>

\* the request is sent but not awaited: the loop goes on to the next dimension
IssueEval_NoAwait ==
  /\ pc = "dimension"
  /\ di <= Len(EnabledDimensions(dimensions))
  /\ searchResults[ei].results > 0
  /\ evalInFlight' = evalInFlight + 1
  /\ evalLog' = Append(evalLog,
        [query |-> qi, engine |-> ei, round |-> round, dimension |-> di,
         delays |-> delaysSince, completed |-> completedTasks])
  /\ delaysSince' = 0
  /\ di' = di + 1
  /\ UNCHANGED <<pureVars, uiVars, searchRequests,
                 queries, searchEngines, dimensions, rounds, deviations, pc, status,
                 qi, searchResults, ei, round, scores, results, totalTasks,
                 completedTasks, progressLog, searchResultLog, searchOutcomes,
                 replies, replyLog>>

\* await callEvaluationApi(...): the scoring request is sent
IssueEval ==
  /\ pc = "dimension"
  /\ di <= Len(EnabledDimensions(dimensions))
  /\ ~buildEvaluationPromptThrows(searchResults[ei])
  /\ evalInFlight' = evalInFlight + 1
  /\ evalLog' = Append(evalLog,
        [query |-> qi, engine |-> ei, round |-> round, dimension |-> di,
         delays |-> delaysSince, completed |-> completedTasks])
  /\ delaysSince' = 0
  /\ pc' = "evalWait"
  /\ UNCHANGED <<pureVars, uiVars, searchRequests,
                 queries, searchEngines, dimensions, rounds, deviations, status,
                 qi, searchResults, ei, round, di, scores, results, totalTasks,
                 completedTasks, progressLog, searchResultLog, searchOutcomes,
                 replies, replyLog>>

\* the reply arrives and a score is extracted from its text
EvalResolve(score) ==
  /\ pc = "evalWait"
  /\ deviations > 0 \/ score = MaxScore
  /\ deviations' = IF score = MaxScore THEN deviations ELSE deviations - 1
  /\ evalInFlight' = evalInFlight - 1
  /\ scores' = (EnabledDimensions(dimensions)[di].name :> score) @@ scores
  /\ replies' = Append(replies, [ok |-> TRUE, score |-> score])
  /\ di' = di + 1
  /\ pc' = "dimension"
  /\ UNCHANGED <<pureVars, uiVars, searchRequests,
                 queries, searchEngines, dimensions, rounds, status,
                 qi, searchResults, ei, round, results, totalTasks, completedTasks,
                 progressLog, searchResultLog, searchOutcomes, evalLog,
                 delaysSince, replyLog>>

\* no per-dimension catch: the error ends the round in the round's catch
\* block, which counts the round and pushes nothing
EvalReject_AbortRound ==
  /\ pc = "evalWait"
  /\ deviations > 0
  /\ deviations' = deviations - 1
  /\ evalInFlight' = evalInFlight - 1
  /\ completedTasks' = completedTasks + 1
  /\ round' = round + 1
  /\ pc' = "round"
  /\ UNCHANGED <<pureVars, uiVars, searchRequests,
                 queries, searchEngines, dimensions, rounds, status,
                 qi, searchResults, ei, di, scores, results, totalTasks,
                 progressLog, searchResultLog, searchOutcomes, evalLog,
                 delaysSince, replies, replyLog>>

\* the error ends the round, which is neither counted nor given a result
EvalReject_AbortUncounted ==
  /\ pc = "evalWait"
  /\ deviations > 0
  /\ deviations' = deviations - 1
  /\ evalInFlight' = evalInFlight - 1
  /\ round' = round + 1
  /\ pc' = "round"
  /\ UNCHANGED <<pureVars, uiVars, searchRequests,
                 queries, searchEngines, dimensions, rounds, status,
                 qi, searchResults, ei, di, scores, results, totalTasks,
                 completedTasks, progressLog, searchResultLog, searchOutcomes,
                 evalLog, delaysSince, replies, replyLog>>

\* callEvaluationApi throws, or the reply has no choices array; the
\* per-dimension catch sets the score to 0
EvalReject ==
  /\ pc = "evalWait"
  /\ deviations > 0
  /\ deviations' = deviations - 1
  /\ evalInFlight' = evalInFlight - 1
  /\ scores' = (EnabledDimensions(dimensions)[di].name :> 0) @@ scores
  /\ replies' = Append(replies, [ok |-> FALSE, score |-> 0])
  /\ di' = di + 1
  /\ pc' = "dimension"
  /\ UNCHANGED <<pureVars, uiVars, searchRequests,
                 queries, searchEngines, dimensions, rounds, status,
                 qi, searchResults, ei, round, results, totalTasks, completedTasks,
                 progressLog, searchResultLog, searchOutcomes, evalLog,
                 delaysSince, replyLog>>

\* the result is pushed and the next round starts without the delay
RoundDone_NoDelay ==
  /\ pc = "dimension"
  /\ di > Len(EnabledDimensions(dimensions))
  /\ results' = Append(results,
        [engineId |-> searchEngines[ei].id, query |-> queries[qi], round |-> round,
         searchResults |-> searchResults[ei].results, scores |-> scores,
         weightedScore |-> calculateWeightedScore(scores, dimensions)])
  /\ replyLog' = Append(replyLog, replies)
  /\ completedTasks' = completedTasks + 1
  /\ round' = round + 1
  /\ pc' = "round"
  /\ UNCHANGED <<pureVars, uiVars, searchRequests,
                 queries, searchEngines, dimensions, rounds, deviations, status,
                 qi, searchResults, ei, di, scores, totalTasks, evalInFlight,
                 progressLog, searchResultLog, searchOutcomes, evalLog, delaysSince,
                 replies>>

\* the result is put at the head of the list
RoundDone_Unshift ==
  /\ pc = "dimension"
  /\ di > Len(EnabledDimensions(dimensions))
  /\ results' = <<[engineId |-> searchEngines[ei].id, query |-> queries[qi], round |-> round,
                   searchResults |-> searchResults[ei].results, scores |-> scores,
                   weightedScore |-> calculateWeightedScore(scores, dimensions)]>>
                \o results
  /\ replyLog' = <<replies>> \o replyLog
  /\ completedTasks' = completedTasks + 1
  /\ pc' = "delay"
  /\ UNCHANGED <<pureVars, uiVars, searchRequests,
                 queries, searchEngines, dimensions, rounds, deviations, status,
                 qi, searchResults, ei, round, di, scores, totalTasks, evalInFlight,
                 progressLog, searchResultLog, searchOutcomes, evalLog, delaysSince,
                 replies>>

\* the dimension loop ends: evaluateWithSearchResults returns the result,
\* which is pushed; completedTasks++; the delay timer is started
RoundDone ==
  /\ pc = "dimension"
  /\ di > Len(EnabledDimensions(dimensions))
  /\ results' = Append(results,
        [engineId |-> searchEngines[ei].id, query |-> queries[qi], round |-> round,
         searchResults |-> searchResults[ei].results, scores |-> scores,
         weightedScore |-> calculateWeightedScore(scores, dimensions)])
  /\ replyLog' = Append(replyLog, replies)
  /\ completedTasks' = completedTasks + 1
  /\ pc' = "delay"
  /\ UNCHANGED <<pureVars, uiVars, searchRequests,
                 queries, searchEngines, dimensions, rounds, deviations, status,
                 qi, searchResults, ei, round, di, scores, totalTasks, evalInFlight,
                 progressLog, searchResultLog, searchOutcomes, evalLog, delaysSince,
                 replies>>

\* await new Promise(resolve => setTimeout(resolve, 1000)), then round++
DelayElapsed ==
  /\ pc = "delay"
  /\ delaysSince' = delaysSince + 1
  /\ round' = round + 1
  /\ pc' = "round"
  /\ UNCHANGED <<pureVars, uiVars, searchRequests,
                 queries, searchEngines, dimensions, rounds, deviations, status,
                 qi, searchResults, ei, di, scores, results, totalTasks,
                 completedTasks, evalInFlight, progressLog, searchResultLog,
                 searchOutcomes, evalLog, replies, replyLog>>

\* the query loop is exhausted: the final onProgress call, return results
Finish ==
  /\ pc = "query"
  /\ qi > Len(queries)
  /\ progressLog' = Append(progressLog,
        [currentEngine |-> 0, currentRound |-> rounds, totalRounds |-> rounds,
         progress |-> 100])
  /\ evaluationProgress' =
        [currentEngine |-> 0, currentRound |-> rounds, totalRounds |-> rounds,
         progress |-> 100]
  /\ pc' = "done"
  /\ status' = "returned"
  /\ UNCHANGED <<pureVars, errorMessage, isEvaluating, evaluationResults,
                 pageSearchResults, searchRequests,
                 queries, searchEngines, dimensions, rounds, deviations, qi,
                 searchResults, ei, round, di, scores, results, totalTasks,
                 completedTasks, evalInFlight, searchResultLog, searchOutcomes,
                 evalLog, delaysSince, replies, replyLog>>

Next ==
  \/ StartQuery
  \/ \E e \in DOMAIN searchResults, n \in 0..MaxResults : SearchResolve(e, n)
  \/ \E e \in DOMAIN searchResults : SearchReject(e)
  \/ AwaitSearches
  \/ EngineLoop
  \/ RoundLoop
  \/ PromptFails
  \/ IssueEval
  \/ \E score \in 0..MaxScore : EvalResolve(score)
  \/ EvalReject
  \/ RoundDone
  \/ DelayElapsed
  \/ Finish

Spec == Init /\ [][Next]_vars

\* the small runs alone: any pattern of failures
SpecFaults == InitSmall /\ [][Next]_vars

\* the runs with one enabled dimension: the small ones with any pattern of
\* failures, and the long fault-free one
InitSmallOneDimension ==
  /\ InitSmall
  /\ dimensions = <<[name |-> "a", weight |-> 1, enabled |-> TRUE]>>

InitOneDimension == InitSmallOneDimension \/ InitLarge

SpecOneDimension == InitOneDimension /\ [][Next]_vars

\* ------------------------------------------------------- claim helpers
QueryIndices == 1..Len(queries)
EngineIndices == 1..Len(searchEngines)

SearchSucceeded(q, e) == [query |-> q, engine |-> e, ok |-> TRUE] \in searchOutcomes
SearchFailed(q, e) == [query |-> q, engine |-> e, ok |-> FALSE] \in searchOutcomes

\* the positions of results that belong to query q, engine e and round r
ResultsFor(q, e, r) ==
  {i \in DOMAIN results : /\ results[i].query = queries[q]
                          /\ results[i].engineId = searchEngines[e].id
                          /\ results[i].round = r}

\* the onSearchResult invocations for query q and engine e
NotifiedFor(q, e) ==
  {i \in DOMAIN searchResultLog : /\ searchResultLog[i].query = queries[q]
                                  /\ searchResultLog[i].engineId = searchEngines[e].id}

Abs(x) == IF x < 0 THEN -x ELSE x

\* p is the percentage of completed in total, rounded to the nearest integer
IsRoundedPercent(p, completed, total) == 2 * Abs(p * total - 100 * completed) <= total

\* ----------------------------------------------------------------- claims

\* C1: when the routine returns, the result list holds exactly one
\* EvaluationResult for every (query, engine whose search for that query
\* succeeded, round in 1..rounds) and none for a (query, engine) whose search
\* failed or for anything else.
C1_OneResultPerSucceededCombination ==
  status = "returned" =>
    /\ \A q \in QueryIndices, e \in EngineIndices, r \in 1..rounds :
         Cardinality(ResultsFor(q, e, r)) = IF SearchSucceeded(q, e) THEN 1 ELSE 0
    /\ \A i \in DOMAIN results :
         \E q \in QueryIndices, e \in EngineIndices, r \in 1..rounds : i \in ResultsFor(q, e, r)

\* the spec's example: 2 engines, 1 query, 2 rounds, 1 enabled dimension,
\* engine 1 failed and engine 2 succeeded: two results, both for engine 2
C1_Witness ==
  /\ status = "returned"
  /\ Len(queries) = 1 /\ Len(searchEngines) = 2 /\ rounds = 2
  /\ Len(EnabledDimensions(dimensions)) = 1
  /\ SearchFailed(1, 1) /\ SearchSucceeded(1, 2)
  /\ Len(results) = 2
  /\ results[1].engineId = searchEngines[2].id /\ results[1].round = 1
  /\ results[2].engineId = searchEngines[2].id /\ results[2].round = 2

\* C2: a failed search of engine e on query q only skips e for q: every other
\* engine whose search on q succeeded is scored for all rounds of q, and e is
\* searched again, and scored if that search succeeds, on every other query.
C2_FailedSearchSkipsOnlyThatEngine ==
  status = "returned" =>
    \A q \in QueryIndices, e \in EngineIndices :
      SearchFailed(q, e) =>
        /\ \A e2 \in EngineIndices \ {e} :
             SearchSucceeded(q, e2) => \A r \in 1..rounds : ResultsFor(q, e2, r) # {}
        /\ \A q2 \in QueryIndices \ {q} :
             /\ SearchSucceeded(q2, e) \/ SearchFailed(q2, e)
             /\ SearchSucceeded(q2, e) => \A r \in 1..rounds : ResultsFor(q2, e, r) # {}

\* engine 1 fails on query 1 and succeeds on query 2; engine 2 succeeds on query 1
C2_Witness ==
  /\ status = "returned"
  /\ rounds >= 1
  /\ Len(EnabledDimensions(dimensions)) >= 1
  /\ Len(queries) = 2 /\ Len(searchEngines) = 2
  /\ SearchFailed(1, 1) /\ SearchSucceeded(1, 2) /\ SearchSucceeded(2, 1)
  /\ ResultsFor(1, 2, 1) # {} /\ ResultsFor(2, 1, 1) # {}

\* C3: exactly one onProgress invocation carries progress = 100 and it is the
\* last invocation of the run; no earlier invocation reports 100.
C3_HundredOnlyAsFinalInvocation ==
  /\ \A i \in DOMAIN progressLog :
       progressLog[i].progress = 100 => (status = "returned" /\ i = Len(progressLog))
  /\ status = "returned" =>
       (Len(progressLog) >= 1 /\ progressLog[Len(progressLog)].progress = 100)

\* C4 as stated: whenever onProgress is invoked after k >= 1 combinations have
\* finished, it carries the rounded percentage of k in the planned total.
C4_ReportsCompletedOverPlanned ==
  [][(Len(progressLog') = Len(progressLog) + 1 /\ completedTasks >= 1) =>
       IsRoundedPercent(progressLog'[Len(progressLog')].progress, completedTasks, totalTasks)]_vars

\* C4 amended: onProgress is invoked once before each round starts, with the
\* rounded percentage of the combinations completed before that round (the
\* round about to start not counted) in the planned total, and once more
\* when the run ends, with 100 whatever the number of completed combinations.
C4_ReportsBeforeEachRound ==
  [][/\ Len(progressLog') = Len(progressLog) + 1 =>
          LET p == progressLog'[Len(progressLog')]
          IN /\ completedTasks' = completedTasks
             /\ Len(progressLog) = completedTasks
             /\ IF pc' = "done"
                  THEN p.progress = 100
                  ELSE /\ pc' = "dimension"
                       /\ p.currentRound = round
                       /\ IsRoundedPercent(p.progress, completedTasks, totalTasks)
     /\ completedTasks' # completedTasks =>
          (completedTasks' = completedTasks + 1 /\ progressLog' = progressLog)
     /\ (pc = "round" /\ pc' = "dimension") => Len(progressLog') = Len(progressLog) + 1]_vars

\* the run has ended after a failed search: the final invocation carries 100
\* although fewer combinations than planned were completed, and the round
\* before it was announced with the percentage of the rounds before it
C4_Witness ==
  /\ status = "returned"
  /\ completedTasks = 2 /\ totalTasks = 4
  /\ Len(progressLog) = 3
  /\ progressLog[1].progress = 0
  /\ progressLog[2].progress = 25
  /\ progressLog[3].progress = 100

\* C5: a failure while scoring one enabled dimension sets that dimension's
\* score to 0 and does not abort the round: every enabled dimension is scored
\* with the value of its own reply (0 for a failed one; of dimensions sharing
\* a name the last one fills the key) and every completed round has a result.
C5_FailedDimensionScoresZero ==
  /\ completedTasks = Len(results)
  /\ Len(replyLog) = Len(results)
  /\ \A i \in DOMAIN results :
       LET ed == EnabledDimensions(dimensions)
       IN /\ Len(replyLog[i]) = Len(ed)
          /\ DOMAIN results[i].scores = {ed[k].name : k \in 1..Len(ed)}
          /\ \A k \in 1..Len(ed) :
               (\A k2 \in (k + 1)..Len(ed) : ed[k2].name # ed[k].name) =>
                 results[i].scores[ed[k].name] =
                   IF replyLog[i][k].ok THEN replyLog[i][k].score ELSE 0

\* a round on a non-empty result list whose first dimension failed and whose
\* second dimension was scored with its own reply
C5_Witness ==
  \E i \in DOMAIN results :
    LET ed == EnabledDimensions(dimensions)
    IN /\ Len(ed) = 2 /\ ed[1].name # ed[2].name
       /\ results[i].searchResults > 0
       /\ ~replyLog[i][1].ok /\ replyLog[i][2].ok /\ replyLog[i][2].score > 0
       /\ results[i].scores[ed[1].name] = 0
       /\ results[i].scores[ed[2].name] = replyLog[i][2].score

\* C6: whatever searches and scoring calls fail, the routine completes
\* normally: it never raises, and when it stops it has returned its list.
C6_NoErrorEscapes ==
  /\ status # "raised"
  /\ pc = "done" => status = "returned"

\* a run that returned after a failed search and a failed scoring call
C6_Witness ==
  /\ status = "returned"
  /\ \E q \in QueryIndices, e \in EngineIndices : SearchFailed(q, e)
  /\ \E i \in DOMAIN results :
       /\ results[i].searchResults > 0
       /\ \E k \in DOMAIN replyLog[i] : ~replyLog[i][k].ok

\* C7: for each query, onSearchResult is invoked exactly once for every
\* engine whose search succeeded and never for one whose search failed, and
\* when a scoring request of that query has been sent every search of the
\* query has completed (so every such invocation came before it).
C7_SearchResultNotifiedOnceBeforeScoring ==
  /\ \A q \in QueryIndices, e \in EngineIndices :
       Cardinality(NotifiedFor(q, e)) = IF SearchSucceeded(q, e) THEN 1 ELSE 0
  /\ Len(searchResultLog) = Cardinality({o \in searchOutcomes : o.ok})
  /\ \A j \in DOMAIN evalLog : \A e \in EngineIndices :
       SearchSucceeded(evalLog[j].query, e) \/ SearchFailed(evalLog[j].query, e)

\* a scoring request was sent after one engine failed and one was notified
C7_Witness ==
  /\ Len(searchEngines) = 2
  /\ SearchFailed(1, 1) /\ SearchSucceeded(1, 2)
  /\ Len(searchResultLog) = 1
  /\ searchResultLog[1].engineId = searchEngines[2].id
  /\ Len(evalLog) = 1 /\ evalLog[1].query = 1

\* C8: within one query every engine's search is sent before any of them is
\* awaited, and no scoring request is outstanding while a search is.
C8_SearchesConcurrentThenScoring ==
  /\ pc = "searching" => \A e \in DOMAIN searchResults : searchResults[e].st # "idle"
  /\ pc # "searching" => \A e \in DOMAIN searchResults : searchResults[e].st # "pending"
  /\ evalInFlight > 0 => \A e \in DOMAIN searchResults : searchResults[e].st = "done"

\* the second engine's search has completed while the first is outstanding
C8_Witness ==
  /\ pc = "searching"
  /\ Len(searchResults) = 2
  /\ searchResults[1].st = "pending"
  /\ searchResults[2].st = "done"

\* C9: at every moment at most one scoring request is in flight, and the
\* routine is suspended on it.
C9_ScoringSequential ==
  /\ evalInFlight <= 1
  /\ evalInFlight = 1 <=> pc = "evalWait"

\* the second scoring request of a run is in flight
C9_Witness ==
  /\ evalInFlight = 1
  /\ Len(evalLog) = 2

\* C10 as stated: between any two consecutive scoring requests of a run the
\* routine waits the fixed delay once.
C10_OneDelayBetweenScoringCalls ==
  \A j \in 2..Len(evalLog) : evalLog[j].delays = 1

\* C10 amended: the fixed delay is waited once after every completed round
\* and not between the scoring requests of one round: two consecutive
\* requests of the same round are separated by no delay, two of different
\* rounds by one delay for each round completed between them.
C10_OneDelayAfterEachRound ==
  \A j \in 2..Len(evalLog) :
    LET a == evalLog[j - 1]
        b == evalLog[j]
        sameRound == a.query = b.query /\ a.engine = b.engine /\ a.round = b.round
    IN /\ b.delays = b.completed - a.completed
       /\ sameRound <=> b.delays = 0

\* two requests of one round without a delay, then a request of the next round
C10_Witness ==
  /\ Len(evalLog) >= 3
  /\ evalLog[2].round = evalLog[1].round /\ evalLog[2].delays = 0
  /\ evalLog[3].round # evalLog[2].round /\ evalLog[3].delays = 1

\* ------------------------------------------------ score extraction alone
\* A response text is a sequence of characters; Label stands for the four
\* characters of the label, which the patterns only match as a whole.
Label == "L"
\* the ASCII colon and the full-width colon
AsciiColon == ":"
FullWidthColon == "::"
Colons == {AsciiColon, FullWidthColon}
Digits == {"0", "1"}
Spaces == {" "}
ResponseChars == {Label, AsciiColon, FullWidthColon, " ", "1", ".", "x"}

DigitValue(c) == IF c = "1" THEN 1 ELSE 0

\* the first position from i on that holds no character of S
RECURSIVE EndOf(_, _, _)
EndOf(t, i, S) ==
  IF i <= Len(t) /\ t[i] \in S THEN EndOf(t, i + 1, S) ELSE i

\* \d+(?:\.\d+)? matched greedily from the digit at i: the position after it
NumberEnd(t, i) ==
  LET e == EndOf(t, i, Digits)
  IN IF e + 1 <= Len(t) /\ t[e] = "." /\ t[e + 1] \in Digits
     THEN EndOf(t, e + 1, Digits)
     ELSE e

RECURSIVE Power10(_)
Power10(k) == IF k = 0 THEN 1 ELSE 10 * Power10(k - 1)

RECURSIVE DigitsValue(_, _, _)
DigitsValue(t, i, e) ==
  IF i >= e THEN 0
  ELSE DigitValue(t[i]) * Power10(e - 1 - i) + DigitsValue(t, i + 1, e)

\* parseFloat of the matched text t[i..e-1], as a reduced fraction
parseFloat(t, i, e) ==
  LET dot == EndOf(t, i, Digits)
  IN IF dot >= e
     THEN <<DigitsValue(t, i, e), 1>>
     ELSE Ratio(DigitsValue(t, i, dot) * Power10(e - 1 - dot)
                  + DigitsValue(t, dot + 1, e),
                Power10(e - 1 - dot))

\* the label pattern matches at p: the position of its number, 0 if none
ScoreMatchAt(t, p) ==
  IF p + 1 <= Len(t) /\ t[p] = Label /\ t[p + 1] \in Colons
  THEN LET q == EndOf(t, p + 2, Spaces)
       IN IF q <= Len(t) /\ t[q] \in Digits THEN q ELSE 0
  ELSE 0

\* the label is not looked for
scoreMatch_Never(t) == 0

\* responseContent.match(label pattern): the position of the number of the
\* leftmost match, 0 for null
scoreMatch(t) ==
  LET at == {p \in 1..Len(t) : ScoreMatchAt(t, p) # 0}
  IN IF at = {} THEN 0
     ELSE ScoreMatchAt(t, CHOOSE p \in at : \A r \in at : p <= r)

\* responseContent.match(/\d+(?:\.\d+)?/): the position of the first digit
numberMatch(t) ==
  LET e == EndOf(t, 1, ResponseChars \ Digits)
  IN IF e <= Len(t) THEN e ELSE 0

\* evaluateWithSearchResults, from the response content to the score
ExtractScore(content) ==
  LET responseContent == IF content = <<>> THEN <<"0">> ELSE content
      labelled == scoreMatch(responseContent)
      bare == numberMatch(responseContent)
  IN IF labelled # 0
     THEN parseFloat(responseContent, labelled, NumberEnd(responseContent, labelled))
     ELSE IF bare # 0
          THEN parseFloat(responseContent, bare, NumberEnd(responseContent, bare))
          ELSE <<0, 1>>

InitExtract ==
  /\ fn = "ExtractScore"
  /\ arg \in [content : SeqsUpTo(ResponseChars, MaxText)]
  /\ ret = None
  /\ NoStream
  /\ NoRun
  /\ NoPage

ApplyExtractScore ==
  /\ fn = "ExtractScore"
  /\ ret = None
  /\ ret' = [value |-> ExtractScore(arg.content)]
  /\ UNCHANGED <<runVars, uiVars, streamVars, fn, arg>>

SpecExtract == InitExtract /\ [][ApplyExtractScore]_vars

\* ------------------------------------- callWebSearchApi, one call alone
\* A JSON object is a function from its field names to their values; a
\* field that is absent is not in the domain.  Reading an absent field
\* gives undefined.
Undefined == "undefined"

Get(object, field) ==
  IF field \in DOMAIN object THEN object[field] ELSE Undefined

\* a || b on strings: undefined and the empty string are falsy
Or(a, b) == IF a \in {Undefined, ""} THEN b ELSE a

\* the items of a raw payload: the url, the snippet and the content may be
\* absent, the snippet may be empty
SearchResultItems ==
  { [title |-> "t"] @@ u @@ sn @@ c :
      u \in {<<>>, [url |-> "u"]},
      sn \in {<<>>, [snippet |-> ""], [snippet |-> "s"]},
      c \in {<<>>, [content |-> "c"]} }

\* a result of the normalized shape
ShapedResults == { [title |-> "t", url |-> "u", snippet |-> "s", rank |-> k] : k \in 1..2 }

\* the payloads: raw ones with a search_result array of at most n items, and
\* ones without it, among them those of the shape {results, total_count,
\* request_id}
Payloads(n) ==
  { sr @@ rs @@ rid @@ id :
      sr \in {<<>>} \cup { [search_result |-> l] : l \in SeqsUpTo(SearchResultItems, n) },
      rs \in {<<>>} \cup { [results |-> l, total_count |-> Len(l)] : l \in SeqsUpTo(ShapedResults, 1) },
      rid \in {<<>>, [request_id |-> ""], [request_id |-> "r"]},
      id \in {<<>>, [id |-> "i"]} }

\* the snippet is taken from the snippet field only
Snippet_NoContent(item) == Or(Get(item, "snippet"), "")

\* item.snippet || item.content || ''
Snippet(item) == Or(Or(Get(item, "snippet"), Get(item, "content")), "")

\* callWebSearchApi on the response to its one request: ok is response.ok,
\* data is the parsed body
callWebSearchApi(response) ==
  LET data == response.data
  IN IF ~response.ok
     THEN [error |-> "WebSearch API"]
     ELSE IF "search_result" \in DOMAIN data
          THEN [value |->
                 [results |->
                    [k \in 1..Len(data.search_result) |->
                       [title |-> Or(Get(data.search_result[k], "title"), ""),
                        url |-> Or(Get(data.search_result[k], "url"), ""),
                        snippet |-> Snippet(data.search_result[k]),
                        rank |-> k]],
                  total_count |-> Len(data.search_result),
                  request_id |-> Or(Or(Get(data, "request_id"), Get(data, "id")), "")]]
          ELSE [value |-> data]

InitSearchCall ==
  /\ fn = "callWebSearchApi"
  /\ arg \in [ok : BOOLEAN, data : Payloads(MaxItems)]
  /\ ret = None
  /\ NoStream
  /\ NoRun
  /\ NoPage

ApplyCallWebSearchApi ==
  /\ fn = "callWebSearchApi"
  /\ ret = None
  /\ ret' = callWebSearchApi(arg)
  /\ UNCHANGED <<runVars, uiVars, streamVars, fn, arg>>

SpecSearchCall == InitSearchCall /\ [][ApplyCallWebSearchApi]_vars

\* ------------------------------------------------ parseBatchQueries alone
Newline == "\n"
\* String.prototype.trim removes blanks and line terminators
Whitespace == {" ", Newline}
BatchChars == {"a", "b", " ", Newline}

\* text.split('\n'): the pieces between the newlines, empty ones included
RECURSIVE Split(_)
Split(t) ==
  LET e == EndOf(t, 1, BatchChars \ {Newline})
  IN IF e > Len(t) THEN <<t>>
     ELSE <<SubSeq(t, 1, e - 1)>> \o Split(SubSeq(t, e + 1, Len(t)))

RECURSIVE TrimStart(_)
TrimStart(t) ==
  IF t # <<>> /\ t[1] \in Whitespace THEN TrimStart(Tail(t)) ELSE t

RECURSIVE TrimEnd(_)
TrimEnd(t) ==
  IF t # <<>> /\ t[Len(t)] \in Whitespace THEN TrimEnd(SubSeq(t, 1, Len(t) - 1)) ELSE t

\* only the leading whitespace is removed
Trim_StartOnly(t) == TrimStart(t)

\* line.trim()
Trim(t) == TrimEnd(TrimStart(t))

parseBatchQueries(batchText) ==
  LET lines == Split(batchText)
      trimmed == [i \in 1..Len(lines) |-> Trim(lines[i])]
  IN SelectSeq(trimmed, LAMBDA line : Len(line) > 0)

InitParse ==
  /\ fn = "parseBatchQueries"
  /\ arg \in [batchText : SeqsUpTo(BatchChars, MaxBatchText)]
  /\ ret = None
  /\ NoStream
  /\ NoRun
  /\ NoPage

ApplyParseBatchQueries ==
  /\ fn = "parseBatchQueries"
  /\ ret = None
  /\ ret' = [value |-> parseBatchQueries(arg.batchText)]
  /\ UNCHANGED <<runVars, uiVars, streamVars, fn, arg>>

SpecParse == InitParse /\ [][ApplyParseBatchQueries]_vars

\* ------------------------------ callEvaluationApi, the streamed read
\* (src/unnamed/part_000: the version of apiService.ts that streams)
\* A chunk is the sequence of its lines (the pieces between its newlines).
\* A line is its leading whitespace (indent), its prefix and its body: a
\* JSON object with a content delta, a JSON value without one, a text that
\* is not JSON, or the sentinel [DONE].
Delta(c) == [kind |-> "delta", content |-> c]
NoDelta == [kind |-> "json", content |-> ""]
NotJson == [kind |-> "text", content |-> ""]
Done == [kind |-> "done", content |-> ""]

\* the lines a chunk may hold: well-formed data lines, a data line without
\* the blank, an indented data line, a line that is no data line
StreamLineList ==
  << [indent |-> FALSE, prefix |-> "data: ", body |-> Delta("x")],
     [indent |-> FALSE, prefix |-> "data: ", body |-> Delta("y")],
     [indent |-> FALSE, prefix |-> "data: ", body |-> NoDelta],
     [indent |-> FALSE, prefix |-> "data: ", body |-> NotJson],
     [indent |-> FALSE, prefix |-> "data: ", body |-> Done],
     [indent |-> FALSE, prefix |-> "data:", body |-> Delta("x")],
     [indent |-> TRUE, prefix |-> "data: ", body |-> Delta("x")],
     [indent |-> FALSE, prefix |-> "", body |-> NotJson] >>

StreamLines == { StreamLineList[i] : i \in DOMAIN StreamLineList }

ChunkEnd == [indent |-> FALSE, prefix |-> "", body |-> [kind |-> "end", content |-> ""]]

\* the chunks of a response written as its lines with a ChunkEnd after the
\* last line of every chunk
RECURSIVE ChunksOf(_)
ChunksOf(stream) ==
  IF stream = <<>> THEN <<>>
  ELSE LET e == EndOf(stream, 1, StreamLines)
       IN <<SubSeq(stream, 1, e - 1)>> \o ChunksOf(SubSeq(stream, e + 1, Len(stream)))

\* the responses of at most n lines and chunk ends together
Responses(n) ==
  {<<>>} \cup
  { ChunksOf(Append(stream, ChunkEnd)) :
      stream \in SeqsUpTo(StreamLines \cup {ChunkEnd}, n - 1) }

\* line.trim().startsWith('data:')
StartsWithData(line) == line.prefix # ""

\* line.replace(/^data: /, '').trim(): the prefix is removed only when the
\* line begins with it, blank included; what is left otherwise is no JSON
\* and not the sentinel
jsonStr(line) ==
  IF ~line.indent /\ line.prefix = "data: " THEN line.body ELSE NotJson

\* the content one line adds
LineDelta(line) ==
  IF ~StartsWithData(line) THEN <<>>
  ELSE IF jsonStr(line) = Done THEN <<>>
       ELSE IF jsonStr(line).kind = "delta" THEN <<jsonStr(line).content>>
            ELSE <<>>

\* the lines after the sentinel are not read
RECURSIVE ChunkDelta_StopAtDone(_)
ChunkDelta_StopAtDone(chunk) ==
  IF chunk = <<>> THEN <<>>
  ELSE IF StartsWithData(chunk[1]) /\ jsonStr(chunk[1]) = Done THEN <<>>
       ELSE LineDelta(chunk[1]) \o ChunkDelta_StopAtDone(Tail(chunk))

\* the content one chunk adds: for (const line of lines)
RECURSIVE ChunkDelta(_)
ChunkDelta(chunk) ==
  IF chunk = <<>> THEN <<>>
  ELSE LineDelta(chunk[1]) \o ChunkDelta(Tail(chunk))

InitStream ==
  /\ fn = "callEvaluationApi"
  /\ arg \in [chunks : Responses(MaxStream)]
  /\ ret = None
  /\ NoStream
  /\ NoRun
  /\ NoPage

\* reader.read() gives the next chunk: the callback, then the lines
ReadChunk ==
  /\ fn = "callEvaluationApi"
  /\ ret = None
  /\ chunksRead < Len(arg.chunks)
  /\ chunksRead' = chunksRead + 1
  /\ sseMessages' = Append(sseMessages, arg.chunks[chunksRead + 1])
  /\ mergedContent' = mergedContent \o ChunkDelta(arg.chunks[chunksRead + 1])
  /\ UNCHANGED <<runVars, uiVars, fn, arg, ret>>

\* reader.read() reports done: mergedResponse is returned
ReadDone ==
  /\ fn = "callEvaluationApi"
  /\ ret = None
  /\ chunksRead = Len(arg.chunks)
  /\ ret' = [value |-> mergedContent]
  /\ UNCHANGED <<runVars, uiVars, streamVars, fn, arg>>

NextStream == ReadChunk \/ ReadDone

SpecStream == InitStream /\ [][NextStream]_vars

\* ---- callEvaluationApi, the whole call
\* (src/unnamed/part_000:143-231)  The request's stream flag is "true",
\* "false" or "undefined"; onSseMessage is supplied or not.  The server
\* obeys the flag of the request body: it streams arg.chunks when the body
\* says stream: true and serves one JSON document with the content
\* arg.content otherwise.
\* const useStream = request.stream || !!onSseMessage
useStream(request, onSseMessage) == request.stream = "true" \/ onSseMessage

\* the stream field of the JSON body of the POST
RequestBody(request, onSseMessage) == [stream |-> useStream(request, onSseMessage)]

\* if (useStream && onSseMessage): the branch that reads with a reader
ReadsAsStream(request, onSseMessage) ==
  useStream(request, onSseMessage) /\ onSseMessage

InitCall ==
  /\ fn = "callEvaluationApi"
  /\ arg \in [request : [stream : {"true", "false", "undefined"}],
               onSseMessage : BOOLEAN,
               chunks : Responses(MaxBody),
               content : {"x", "y"}]
  /\ ret = None
  /\ NoStream
  /\ NoRun
  /\ NoPage

\* the streaming branch: one reader.read() that gives a chunk
CallReadChunk ==
  /\ ReadsAsStream(arg.request, arg.onSseMessage)
  /\ ReadChunk

\* the streaming branch: reader.read() reports done, return mergedResponse
CallReadDone ==
  /\ fn = "callEvaluationApi"
  /\ ret = None
  /\ ReadsAsStream(arg.request, arg.onSseMessage)
  /\ chunksRead = Len(arg.chunks)
  /\ ret' = [value |-> mergedContent, read |-> "stream", threw |-> FALSE]
  /\ UNCHANGED <<runVars, uiVars, streamVars, fn, arg>>

\* const data = await response.json(): the body is parsed as one JSON
\* document; a streamed body (data: lines, or nothing) is none, the parse
\* throws and the catch block rethrows
CallParseJson ==
  /\ fn = "callEvaluationApi"
  /\ ret = None
  /\ ~ReadsAsStream(arg.request, arg.onSseMessage)
  /\ ret' = IF RequestBody(arg.request, arg.onSseMessage).stream
            THEN [value |-> <<>>, read |-> "json", threw |-> TRUE]
            ELSE [value |-> <<arg.content>>, read |-> "json", threw |-> FALSE]
  /\ UNCHANGED <<runVars, uiVars, streamVars, fn, arg>>

NextCall == CallReadChunk \/ CallReadDone \/ CallParseJson

SpecCall == InitCall /\ [][NextCall]_vars

\* ------------------------------------------- the configuration panel
\* What the panel holds when the start button is pressed: the two query
\* inputs, the engine and dimension lists, the API configuration and the
\* round count.  Texts are sequences of characters.
PanelInputs ==
  [singleQuery : {<<>>, <<" ">>, <<" ", "a">>},
   batchQueries : {<<>>, <<Newline>>, <<"b", Newline>>},
   searchEngines : {<<>>, <<[id |-> 1]>>},
   dimensions : { <<[name |-> "a", weight |-> 1, enabled |-> TRUE]>>,
                  <<[name |-> "a", weight |-> 1, enabled |-> FALSE]>>,
                  <<[name |-> "a", weight |-> 1, enabled |-> FALSE],
                    [name |-> "b", weight |-> 2, enabled |-> TRUE]>> },
   apiConfig : [apiUrl : {<<"u">>}, apiKey : {<<>>, <<" ">>, <<"k">>},
                modelKey : {<<"m">>}, websearchUrl : {<<"w">>}],
   evaluationRounds : {1}]

\* the button stays usable while an evaluation runs
ButtonDisabled_IgnoresEvaluating(apiConfig) ==
  \/ apiConfig.apiUrl = <<>>
  \/ apiConfig.apiKey = <<>>
  \/ apiConfig.modelKey = <<>>
  \/ apiConfig.websearchUrl = <<>>

\* the disabled attribute of the start button
ButtonDisabled(apiConfig) ==
  \/ isEvaluating
  \/ apiConfig.apiUrl = <<>>
  \/ apiConfig.apiKey = <<>>
  \/ apiConfig.modelKey = <<>>
  \/ apiConfig.websearchUrl = <<>>

\* a field is only tested for the empty string, not trimmed
validateEvaluationConfig_NoTrim(config) ==
  (IF config.apiUrl = <<>> THEN <<"apiUrl">> ELSE <<>>)
  \o (IF config.modelApiKey = <<>> THEN <<"modelApiKey">> ELSE <<>>)
  \o (IF config.modelKey = <<>> THEN <<"modelKey">> ELSE <<>>)
  \o (IF config.websearchUrl = <<>> THEN <<"websearchUrl">> ELSE <<>>)

\* the errors of validateEvaluationConfig, in order; the configuration is
\* valid when there are none
validateEvaluationConfig(config) ==
  (IF Trim(config.apiUrl) = <<>> THEN <<"apiUrl">> ELSE <<>>)
  \o (IF Trim(config.modelApiKey) = <<>> THEN <<"modelApiKey">> ELSE <<>>)
  \o (IF Trim(config.modelKey) = <<>> THEN <<"modelKey">> ELSE <<>>)
  \o (IF Trim(config.websearchUrl) = <<>> THEN <<"websearchUrl">> ELSE <<>>)

\* ---- validateEvaluationConfig alone
ConfigChars == {" ", "a"}

InitValidate ==
  /\ fn = "validateEvaluationConfig"
  /\ arg \in [config : [apiUrl : SeqsUpTo(ConfigChars, MaxConfigText),
                         modelApiKey : SeqsUpTo(ConfigChars, MaxConfigText),
                         modelKey : SeqsUpTo(ConfigChars, MaxConfigText),
                         websearchUrl : SeqsUpTo(ConfigChars, MaxConfigText)]]
  /\ ret = None
  /\ NoStream
  /\ NoRun
  /\ NoPage

\* return { isValid: errors.length === 0, errors }
ApplyValidateEvaluationConfig ==
  /\ fn = "validateEvaluationConfig"
  /\ ret = None
  /\ ret' = [value |-> [isValid |-> validateEvaluationConfig(arg.config) = <<>>,
                        errors |-> validateEvaluationConfig(arg.config)]]
  /\ UNCHANGED <<runVars, uiVars, streamVars, fn, arg>>

SpecValidate == InitValidate /\ [][ApplyValidateEvaluationConfig]_vars

evaluationConfig(apiConfig) ==
  [apiUrl |-> apiConfig.apiUrl, modelApiKey |-> apiConfig.apiKey,
   modelKey |-> apiConfig.modelKey, websearchUrl |-> apiConfig.websearchUrl]

\* the check of the enabled dimensions is left out
ValidationError_NoDimensionCheck(input) ==
  IF Trim(input.singleQuery) = <<>> /\ Trim(input.batchQueries) = <<>>
  THEN <<"query">>
  ELSE IF Len(input.searchEngines) = 0
       THEN <<"engine">>
       ELSE IF validateEvaluationConfig(evaluationConfig(input.apiConfig)) # <<>>
            THEN <<"config">> \o validateEvaluationConfig(evaluationConfig(input.apiConfig))
            ELSE <<>>

\* the four checks at the head of startEvaluation: the message set by the
\* first that fails, <<>> when all pass
ValidationError(input) ==
  IF Trim(input.singleQuery) = <<>> /\ Trim(input.batchQueries) = <<>>
  THEN <<"query">>
  ELSE IF Len(input.searchEngines) = 0
       THEN <<"engine">>
       ELSE IF Len(EnabledDimensions(input.dimensions)) = 0
            THEN <<"dimension">>
            ELSE IF validateEvaluationConfig(evaluationConfig(input.apiConfig)) # <<>>
                 THEN <<"config">> \o validateEvaluationConfig(evaluationConfig(input.apiConfig))
                 ELSE <<>>

\* runOptimizedBatchEvaluation is entered with these arguments: the state of
\* InitRun
CallRoutine(qs, engines, dims, r) ==
  /\ queries' = qs
  /\ searchEngines' = engines
  /\ dimensions' = dims
  /\ rounds' = r
  /\ deviations' = MaxDeviations
  /\ pc' = "query"
  /\ status' = "running"
  /\ qi' = 1
  /\ searchResults' = [e \in 1..Len(engines) |-> Idle]
  /\ ei' = 1
  /\ round' = 1
  /\ di' = 1
  /\ scores' = <<>>
  /\ results' = <<>>
  /\ totalTasks' = Len(qs) * Len(engines) * r
  /\ completedTasks' = 0
  /\ evalInFlight' = 0
  /\ progressLog' = <<>>
  /\ searchResultLog' = <<>>
  /\ searchOutcomes' = {}
  /\ evalLog' = <<>>
  /\ delaysSince' = 0
  /\ replies' = <<>>
  /\ replyLog' = <<>>
  /\ searchRequests' = <<>>

\* a press of the start button.  A failed check sets the message and
\* returns.  Otherwise the message is cleared, isEvaluating is set, the
\* shown results are emptied, clearResults empties the search results and
\* the progress, and the routine is called with the single query or with
\* the parsed batch.
startEvaluation(input) ==
  /\ ~ButtonDisabled(input.apiConfig)
  /\ IF ValidationError(input) # <<>>
     THEN /\ errorMessage' = ValidationError(input)
          /\ UNCHANGED <<runVars, isEvaluating, evaluationResults,
                         pageSearchResults, evaluationProgress>>
     ELSE /\ errorMessage' = <<>>
          /\ isEvaluating' = TRUE
          /\ evaluationResults' = <<>>
          /\ pageSearchResults' = <<>>
          /\ evaluationProgress' = None
          /\ CallRoutine(IF Trim(input.singleQuery) # <<>>
                         THEN <<Trim(input.singleQuery)>>
                         ELSE parseBatchQueries(input.batchQueries),
                         input.searchEngines, input.dimensions,
                         input.evaluationRounds)
  /\ UNCHANGED pureVars

\* the results are shown but isEvaluating stays set
EvaluationSettled_KeepEvaluating ==
  /\ isEvaluating
  /\ pc = "done"
  /\ status = "returned"
  /\ evaluationResults # results
  /\ evaluationResults' = results
  /\ UNCHANGED <<runVars, pureVars, errorMessage, isEvaluating, pageSearchResults,
                 evaluationProgress>>

\* the routine has returned: setEvaluationResults(results), and the finally
\* block resets isEvaluating.  (The catch block is not entered: the routine
\* catches every error of a search and of a scoring call itself.)
EvaluationSettled ==
  /\ isEvaluating
  /\ pc = "done"
  /\ status = "returned"
  /\ evaluationResults' = results
  /\ isEvaluating' = FALSE
  /\ UNCHANGED <<runVars, pureVars, errorMessage, pageSearchResults,
                 evaluationProgress>>

InitPanel ==
  /\ NoRun
  /\ NoPage
  /\ NoCall

NextPanel ==
  \/ \E input \in PanelInputs : startEvaluation(input)
  \/ Next
  \/ EvaluationSettled

SpecPanel == InitPanel /\ [][NextPanel]_vars

\* the event loop runs every continuation that is ready, every HTTP call is
\* answered (it succeeds or fails) and the delay timer fires
PanelFairness ==
  /\ WF_vars(Next)
  /\ WF_vars(EvaluationSettled)

SpecPanelLive == SpecPanel /\ PanelFairness

\* ------------------------------------------------ the dimension editor
\* (src/app/components/PromptEditor.tsx)  The dimension list of the page is
\* edited, then one evaluation of one query on one engine is started with
\* it.  A dimension is addressed by its position (its id is unique).  The
\* routine works on the copy of the list it was called with, so the editor
\* is only followed up to the press of the start button.
runVarsButDimensions ==
  <<queries, searchEngines, rounds, deviations, pc, status,
    qi, searchResults, ei, round, di, scores, results, totalTasks,
    completedTasks, evalInFlight, progressLog, searchResultLog,
    searchOutcomes, evalLog, delaysSince, replies, replyLog, searchRequests>>

Editing == status = "idle"

\* addDimension: a blank name and a name in use are refused.  The new
\* dimension is enabled; its weight 0.33 is off the 0.05 grid of the weight
\* input, so the edit is taken together with the reweighting to w.
addDimension(name, w) ==
  /\ Editing
  /\ Len(dimensions) < MaxDims
  /\ \A k \in DOMAIN dimensions : dimensions[k].name # name
  /\ dimensions' = Append(dimensions, [name |-> name, weight |-> w, enabled |-> TRUE])
  /\ UNCHANGED <<runVarsButDimensions, uiVars, pureVars>>

\* updateDimensionName: the name typed replaces the name, unchecked
updateDimensionName(k, name) ==
  /\ Editing
  /\ k \in DOMAIN dimensions
  /\ dimensions[k].name # name
  /\ dimensions' = [dimensions EXCEPT ![k].name = name]
  /\ UNCHANGED <<runVarsButDimensions, uiVars, pureVars>>

toggleDimensionEnabled(k) ==
  /\ Editing
  /\ k \in DOMAIN dimensions
  /\ dimensions' = [dimensions EXCEPT ![k].enabled = ~dimensions[k].enabled]
  /\ UNCHANGED <<runVarsButDimensions, uiVars, pureVars>>

\* updateDimensionWeight: the weight input is disabled for a disabled
\* dimension (PromptEditor.tsx:450)
updateDimensionWeight(k, w) ==
  /\ Editing
  /\ k \in DOMAIN dimensions
  /\ dimensions[k].enabled
  /\ dimensions[k].weight # w
  /\ dimensions' = [dimensions EXCEPT ![k].weight = w]
  /\ UNCHANGED <<runVarsButDimensions, uiVars, pureVars>>

\* deleteDimension: the last dimension is kept
deleteDimension(k) ==
  /\ Editing
  /\ k \in DOMAIN dimensions
  /\ Len(dimensions) > 1
  /\ dimensions' = [i \in 1..(Len(dimensions) - 1) |->
                      IF i < k THEN dimensions[i] ELSE dimensions[i + 1]]
  /\ UNCHANGED <<runVarsButDimensions, uiVars, pureVars>>

\* what the panel holds when the button is pressed after the edits
EditedInput ==
  [singleQuery |-> <<"a">>, batchQueries |-> <<>>,
   searchEngines |-> <<[id |-> 1]>>, dimensions |-> dimensions,
   apiConfig |-> [apiUrl |-> <<"u">>, apiKey |-> <<"k">>,
                  modelKey |-> <<"m">>, websearchUrl |-> <<"w">>],
   evaluationRounds |-> 1]

PressStart ==
  /\ Editing
  /\ startEvaluation(EditedInput)

\* the page's first dimension list holds enabled dimensions of distinct
\* names (page.tsx:26-30); the routine has not been called
InitEdit ==
  /\ dimensions \in { l \in WeightedDimensions(MaxDims) :
                         /\ l # <<>>
                         /\ \A i, j \in DOMAIN l : i # j => l[i].name # l[j].name }
  /\ queries = <<>>
  /\ searchEngines = <<>>
  /\ rounds = 0
  /\ deviations = 0
  /\ pc = "idle"
  /\ status = "idle"
  /\ qi = 1
  /\ searchResults = <<>>
  /\ ei = 1
  /\ round = 1
  /\ di = 1
  /\ scores = <<>>
  /\ results = <<>>
  /\ totalTasks = 0
  /\ completedTasks = 0
  /\ evalInFlight = 0
  /\ progressLog = <<>>
  /\ searchResultLog = <<>>
  /\ searchOutcomes = {}
  /\ evalLog = <<>>
  /\ delaysSince = 0
  /\ replies = <<>>
  /\ replyLog = <<>>
  /\ searchRequests = <<>>
  /\ NoPage
  /\ NoCall

NextEdit ==
  \/ \E name \in Names, w \in 0..MaxWeight : addDimension(name, w)
  \/ \E k \in 1..MaxDims, name \in Names : updateDimensionName(k, name)
  \/ \E k \in 1..MaxDims : toggleDimensionEnabled(k)
  \/ \E k \in 1..MaxDims, w \in 0..MaxWeight : updateDimensionWeight(k, w)
  \/ \E k \in 1..MaxDims : deleteDimension(k)
  \/ PressStart
  \/ Next
  \/ EvaluationSettled

SpecEdit == InitEdit /\ [][NextEdit]_vars

\* ------------------------------------ runBatchEvaluation, the legacy routine
\* (evaluationService.ts:379-475)  The legacy routine is run after the
\* optimized one, on the same inputs and against the same services: every
\* call is answered as the same call of the first run was.  fn names the
\* legacy routine while it runs and arg holds what the first run returned
\* and how its calls were answered.
Legacy == fn = "runBatchEvaluation"

\* the first run has returned; the legacy routine is called with its inputs
CallLegacy ==
  /\ fn = "none"
  /\ pc = "done"
  /\ status = "returned"
  /\ fn' = "runBatchEvaluation"
  /\ arg' = [results |-> results, progressLog |-> progressLog,
             searchOutcomes |-> searchOutcomes, searchResultLog |-> searchResultLog,
             replyLog |-> replyLog]
  /\ CallRoutine(queries, searchEngines, dimensions, rounds)
  /\ UNCHANGED <<uiVars, streamVars, ret>>

\* how the search of query q on engine e was answered in the first run
SearchAnswered(q, e) ==
  IF [query |-> q, engine |-> e, ok |-> TRUE] \in arg.searchOutcomes
  THEN LET i == CHOOSE j \in DOMAIN arg.searchResultLog :
                  /\ arg.searchResultLog[j].query = queries[q]
                  /\ arg.searchResultLog[j].engineId = searchEngines[e].id
       IN [ok |-> TRUE, results |-> arg.searchResultLog[i].searchResults]
  ELSE [ok |-> FALSE, results |-> 0]

\* how the scoring calls of round r of query q on engine e were answered in
\* the first run, per enabled dimension (none if it did not score the round)
RepliesAnswered(q, e, r) ==
  LET at == {i \in DOMAIN arg.results : /\ arg.results[i].query = queries[q]
                                        /\ arg.results[i].engineId = searchEngines[e].id
                                        /\ arg.results[i].round = r}
  IN IF at = {} THEN <<>> ELSE arg.replyLog[CHOOSE i \in at : TRUE]

\* for (const query of queries): a new searchResultsMap, then the search loop
LegacyStartQuery ==
  /\ Legacy
  /\ pc = "query"
  /\ qi <= Len(queries)
  /\ searchResults' = [e \in 1..Len(searchEngines) |-> Idle]
  /\ ei' = 1
  /\ pc' = "legacySearch"
  /\ UNCHANGED <<uiVars, streamVars, fn, arg, ret, searchRequests,
                 queries, searchEngines, dimensions, rounds, deviations, status,
                 qi, round, di, scores, results, totalTasks, completedTasks,
                 evalInFlight, progressLog, searchResultLog, searchOutcomes,
                 evalLog, delaysSince, replies, replyLog>>

\* for (const engine of searchEngines): await callWebSearchApi, one engine
\* at a time; after the last engine the scoring loop starts
LegacySearchLoop ==
  /\ Legacy
  /\ pc = "legacySearch"
  /\ IF ei > Len(searchEngines)
       THEN /\ ei' = 1
            /\ pc' = "legacyEngine"
            /\ UNCHANGED <<searchRequests, searchResults>>
       ELSE /\ searchRequests' = Append(searchRequests, [query |-> qi, engine |-> ei])
            /\ searchResults' = [searchResults EXCEPT ![ei] =
                                   IF @ = Idle THEN Pending ELSE @]
            /\ pc' = "legacySearchWait"
            /\ UNCHANGED ei
  /\ UNCHANGED <<uiVars, streamVars, fn, arg, ret,
                 queries, searchEngines, dimensions, rounds, deviations, status,
                 qi, round, di, scores, results, totalTasks, completedTasks,
                 evalInFlight, progressLog, searchResultLog, searchOutcomes,
                 evalLog, delaysSince, replies, replyLog>>

\* the search is answered: searchResultsMap.set(engine.id, searchResponse),
\* then the 500 ms timer is started
LegacySearchResolve ==
  /\ Legacy
  /\ pc = "legacySearchWait"
  /\ SearchAnswered(qi, ei).ok
  /\ searchResults' = [e \in DOMAIN searchResults |->
                         IF searchEngines[e].id = searchEngines[ei].id
                         THEN Fulfilled(SearchAnswered(qi, ei).results)
                         ELSE searchResults[e]]
  /\ searchOutcomes' = searchOutcomes \cup {[query |-> qi, engine |-> ei, ok |-> TRUE]}
  /\ pc' = "legacySearchDelay"
  /\ UNCHANGED <<uiVars, streamVars, fn, arg, ret, searchRequests,
                 queries, searchEngines, dimensions, rounds, deviations, status,
                 qi, ei, round, di, scores, results, totalTasks, completedTasks,
                 evalInFlight, progressLog, searchResultLog, evalLog, delaysSince,
                 replies, replyLog>>

\* await new Promise(resolve => setTimeout(resolve, 500)), then the next engine
LegacySearchDelay ==
  /\ Legacy
  /\ pc = "legacySearchDelay"
  /\ ei' = ei + 1
  /\ pc' = "legacySearch"
  /\ UNCHANGED <<uiVars, streamVars, fn, arg, ret, searchRequests,
                 queries, searchEngines, dimensions, rounds, deviations, status,
                 qi, searchResults, round, di, scores, results, totalTasks,
                 completedTasks, evalInFlight, progressLog, searchResultLog,
                 searchOutcomes, evalLog, delaysSince, replies, replyLog>>

\* a failed search ends the search loop of the query
LegacySearchReject_Break ==
  /\ Legacy
  /\ pc = "legacySearchWait"
  /\ ~SearchAnswered(qi, ei).ok
  /\ searchResults' = [searchResults EXCEPT ![ei] = IF @ = Pending THEN Idle ELSE @]
  /\ searchOutcomes' = searchOutcomes \cup {[query |-> qi, engine |-> ei, ok |-> FALSE]}
  /\ ei' = 1
  /\ pc' = "legacyEngine"
  /\ UNCHANGED <<uiVars, streamVars, fn, arg, ret, searchRequests,
                 queries, searchEngines, dimensions, rounds, deviations, status,
                 qi, round, di, scores, results, totalTasks, completedTasks,
                 evalInFlight, progressLog, searchResultLog, evalLog, delaysSince,
                 replies, replyLog>>

\* callWebSearchApi throws: the catch block logs, nothing is put in the map
\* and the loop goes on with the next engine, without the delay
LegacySearchReject ==
  /\ Legacy
  /\ pc = "legacySearchWait"
  /\ ~SearchAnswered(qi, ei).ok
  /\ searchResults' = [searchResults EXCEPT ![ei] = IF @ = Pending THEN Idle ELSE @]
  /\ searchOutcomes' = searchOutcomes \cup {[query |-> qi, engine |-> ei, ok |-> FALSE]}
  /\ ei' = ei + 1
  /\ pc' = "legacySearch"
  /\ UNCHANGED <<uiVars, streamVars, fn, arg, ret, searchRequests,
                 queries, searchEngines, dimensions, rounds, deviations, status,
                 qi, round, di, scores, results, totalTasks, completedTasks,
                 evalInFlight, progressLog, searchResultLog, evalLog, delaysSince,
                 replies, replyLog>>

\* for (const engine of searchEngines): searchResultsMap.get(engine.id); an
\* engine without an entry is skipped; after the last engine the next query
LegacyEngineLoop ==
  /\ Legacy
  /\ pc = "legacyEngine"
  /\ IF ei > Len(searchEngines)
       THEN /\ qi' = qi + 1
            /\ pc' = "query"
            /\ UNCHANGED <<ei, round>>
       ELSE IF ~searchResults[ei].ok
         THEN /\ ei' = ei + 1
              /\ UNCHANGED <<qi, pc, round>>
         ELSE /\ round' = 1
              /\ pc' = "legacyRound"
              /\ UNCHANGED <<qi, ei>>
  /\ UNCHANGED <<uiVars, streamVars, fn, arg, ret, searchRequests,
                 queries, searchEngines, dimensions, rounds, deviations, status,
                 searchResults, di, scores, results, totalTasks, completedTasks,
                 evalInFlight, progressLog, searchResultLog, searchOutcomes,
                 evalLog, delaysSince, replies, replyLog>>

\* for (let round = 1; round <= rounds; round++): onProgress, then
\* evaluateWithSearchResults is entered
LegacyRoundLoop ==
  /\ Legacy
  /\ pc = "legacyRound"
  /\ IF round > rounds
       THEN /\ ei' = ei + 1
            /\ pc' = "legacyEngine"
            /\ UNCHANGED <<progressLog, scores, di, replies>>
       ELSE /\ progressLog' = Append(progressLog,
                 [currentEngine |-> searchEngines[ei].id, currentRound |-> round,
                  totalRounds |-> rounds,
                  progress |-> RoundPercent(completedTasks, totalTasks)])
            /\ scores' = <<>>
            /\ replies' = <<>>
            /\ di' = 1
            /\ pc' = "dimension"
            /\ UNCHANGED ei
  /\ UNCHANGED <<uiVars, streamVars, fn, arg, ret, searchRequests,
                 queries, searchEngines, dimensions, rounds, deviations, status,
                 qi, searchResults, round, results, totalTasks, completedTasks,
                 evalInFlight, searchResultLog, searchOutcomes, evalLog,
                 delaysSince, replyLog>>

\* evaluateWithSearchResults, shared by both routines: a scoring call is
\* answered as the same call of the first run was (as nominal if the first
\* run did not make it)
LegacyScoring ==
  /\ Legacy
  /\ \/ PromptFails
     \/ IssueEval
     \/ /\ pc = "evalWait"
        /\ LET rs == RepliesAnswered(qi, ei, round)
           IN IF di <= Len(rs)
              THEN IF rs[di].ok THEN EvalResolve(rs[di].score) ELSE EvalReject
              ELSE EvalResolve(MaxScore)

\* results.push(result); completedTasks++; the 1 s timer is started
LegacyRoundDone ==
  /\ Legacy
  /\ pc = "dimension"
  /\ di > Len(EnabledDimensions(dimensions))
  /\ results' = Append(results,
        [engineId |-> searchEngines[ei].id, query |-> queries[qi], round |-> round,
         searchResults |-> searchResults[ei].results, scores |-> scores,
         weightedScore |-> calculateWeightedScore(scores, dimensions)])
  /\ replyLog' = Append(replyLog, replies)
  /\ completedTasks' = completedTasks + 1
  /\ pc' = "legacyDelay"
  /\ UNCHANGED <<uiVars, streamVars, fn, arg, ret, searchRequests,
                 queries, searchEngines, dimensions, rounds, deviations, status,
                 qi, searchResults, ei, round, di, scores, totalTasks, evalInFlight,
                 progressLog, searchResultLog, searchOutcomes, evalLog, delaysSince,
                 replies>>

LegacyDelayElapsed ==
  /\ Legacy
  /\ pc = "legacyDelay"
  /\ delaysSince' = delaysSince + 1
  /\ round' = round + 1
  /\ pc' = "legacyRound"
  /\ UNCHANGED <<uiVars, streamVars, fn, arg, ret, searchRequests,
                 queries, searchEngines, dimensions, rounds, deviations, status,
                 qi, searchResults, ei, di, scores, results, totalTasks,
                 completedTasks, evalInFlight, progressLog, searchResultLog,
                 searchOutcomes, evalLog, replies, replyLog>>

\* the final onProgress call; return results
LegacyFinish ==
  /\ Legacy
  /\ pc = "query"
  /\ qi > Len(queries)
  /\ progressLog' = Append(progressLog,
        [currentEngine |-> 0, currentRound |-> rounds, totalRounds |-> rounds,
         progress |-> 100])
  /\ pc' = "done"
  /\ status' = "returned"
  /\ ret' = [value |-> results]
  /\ UNCHANGED <<uiVars, streamVars, fn, arg, searchRequests,
                 queries, searchEngines, dimensions, rounds, deviations, qi,
                 searchResults, ei, round, di, scores, results, totalTasks,
                 completedTasks, evalInFlight, searchResultLog, searchOutcomes,
                 evalLog, delaysSince, replies, replyLog>>

NextLegacy ==
  \/ LegacyStartQuery
  \/ LegacySearchLoop
  \/ LegacySearchResolve
  \/ LegacySearchDelay
  \/ LegacySearchReject
  \/ LegacyEngineLoop
  \/ LegacyRoundLoop
  \/ LegacyScoring
  \/ LegacyRoundDone
  \/ LegacyDelayElapsed
  \/ LegacyFinish

\* the optimized routine, then the legacy routine on the same inputs
NextBoth ==
  \/ fn = "none" /\ Next
  \/ CallLegacy
  \/ NextLegacy

SpecBoth == InitSmallOneDimension /\ [][NextBoth]_vars

\* ------------------------------------------------- claims, pure functions
\* the function fn has been applied
Applied(f) == fn = f /\ ret # None

\* the sum of f[x] over the x of S
RECURSIVE SumOver(_, _)
SumOver(f, S) ==
  IF S = {} THEN 0
  ELSE LET x == CHOOSE y \in S : TRUE IN f[x] + SumOver(f, S \ {x})

\* the positions of dims whose name has an entry in sc
ScoredIndices(sc, dims) == {i \in 1..Len(dims) : dims[i].name \in DOMAIN sc}

\* dims without its i-th element
RemoveAt(dims, i) == SubSeq(dims, 1, i - 1) \o SubSeq(dims, i + 1, Len(dims))

\* the largest value of a scores map, 0 for the empty map
MaxOf(sc) ==
  IF DOMAIN sc = {} THEN 0
  ELSE CHOOSE m \in {sc[k] : k \in DOMAIN sc} : \A k \in DOMAIN sc : sc[k] <= m

\* C11: calculateWeightedScore(scores, dimensions) is the sum of score x
\* weight over the dimensions whose name has an entry in scores, divided by
\* the sum of the weights of those dimensions (the quotient of the two sums;
\* its rounding to a double is the matter of C12), and 0 when no dimension
\* has an entry or the weights sum to 0.
C11_WeightedScoreIsWeightedMean ==
  Applied("calculateWeightedScore") =>
    LET S == arg.scores
        D == arg.dimensions
        I == ScoredIndices(S, D)
        num == SumOver([i \in I |-> S[D[i].name] * D[i].weight], I)
        den == SumOver([i \in I |-> D[i].weight], I)
    IN IF den = 0
       THEN ret.value = <<0, 1, 0>>
       ELSE /\ ret.value[2] > 0
            /\ ret.value[1] * den = ret.value[2] * num
            /\ GCD(ret.value[1], ret.value[2]) = 1

\* scores 1 and 3 with weights 2 and 1: (1 * 2 + 3 * 1) / 3
C11_Witness ==
  /\ Applied("calculateWeightedScore")
  /\ Len(arg.dimensions) = 2
  /\ ScoredIndices(arg.scores, arg.dimensions) = {1, 2}
  /\ ret.value = <<5, 3, 0>>

\* C12: for weights in 0..1 and scores in [0, max] the weighted score lies in
\* [0, max], and it is 0 when the scores map has no key that names a
\* dimension of the list.
C12_WeightedScoreWithinScoreRange ==
  Applied("calculateWeightedScore") =>
    LET S == arg.scores
        D == arg.dimensions
        max == MaxOf(S)
        v == ret.value
    IN /\ v[1] >= 0
       /\ v[1] <= max * v[2]
       /\ v[1] = max * v[2] => v[3] = 0
       /\ ScoredIndices(S, D) = {} => v[1] = 0 /\ v[3] = 0

\* C13: a dimension whose name has no entry in the scores map affects neither
\* the numerator nor the denominator: the weighted score is that of the list
\* without it.
C13_UnscoredDimensionIgnored ==
  Applied("calculateWeightedScore") =>
    \A i \in 1..Len(arg.dimensions) :
      arg.dimensions[i].name \notin DOMAIN arg.scores =>
        ret.value = calculateWeightedScore(arg.scores, RemoveAt(arg.dimensions, i))

\* a scored dimension next to an unscored one of positive weight
C13_Witness ==
  /\ Applied("calculateWeightedScore")
  /\ \E i, j \in 1..Len(arg.dimensions) :
       /\ arg.dimensions[i].name \notin DOMAIN arg.scores
       /\ arg.dimensions[i].weight > 0
       /\ arg.dimensions[j].name \in DOMAIN arg.scores
       /\ arg.dimensions[j].weight > 0
  /\ ret.value[1] > 0

\* t[a..b] is a number as the patterns read it: digits, or digits, a point
\* and digits
IsNumber(t, a, b) ==
  /\ a <= b
  /\ \/ \A k \in a..b : t[k] \in Digits
     \/ \E d \in (a + 1)..(b - 1) :
          /\ t[d] = "."
          /\ \A k \in a..b : k # d => t[k] \in Digits

\* the longest number that starts at a: the end of its whole part or, when a
\* point and a digit follow it, the end of its decimals
NumberFrom(t, a) ==
  LET ends == {b \in a..Len(t) : IsNumber(t, a, b)}
      whole == {b \in ends : \A k \in a..b : t[k] \in Digits}
      lastWhole == CHOOSE b \in whole : \A c \in whole : c <= b
      decimal == {b \in ends : t[lastWhole + 1] = "." /\ b > lastWhole}
  IN IF lastWhole + 2 <= Len(t) /\ decimal # {}
     THEN CHOOSE b \in decimal : \A c \in decimal : c <= b
     ELSE lastWhole

\* the positions q of a number that follows the label, a colon and optional
\* whitespace
LabelledNumbers(t) ==
  {q \in 1..Len(t) :
     /\ t[q] \in Digits
     /\ \E p \in 1..(q - 2) :
          /\ t[p] = Label
          /\ t[p + 1] \in Colons
          /\ \A k \in (p + 2)..(q - 1) : t[k] \in Spaces}

Least(S) == CHOOSE x \in S : \A y \in S : x <= y

\* C14: if the text contains the label followed by a full-width or ASCII
\* colon, optional whitespace and a number, the score is that number (of the
\* first such place), even when other numbers occur earlier; otherwise it is
\* the first bare number anywhere in the text; without a digit it is 0.
C14_LabelledScoreElseFirstNumber ==
  Applied("ExtractScore") =>
    LET t == arg.content
        labelled == LabelledNumbers(t)
        digits == {q \in 1..Len(t) : t[q] \in Digits}
    IN IF labelled # {}
       THEN LET q == Least(labelled)
            IN ret.value = parseFloat(t, q, NumberFrom(t, q) + 1)
       ELSE IF digits # {}
            THEN LET q == Least(digits)
                 IN ret.value = parseFloat(t, q, NumberFrom(t, q) + 1)
            ELSE ret.value = <<0, 1>>

\* "1L:11": the labelled 11 wins over the earlier 1
C14_Witness ==
  /\ Applied("ExtractScore")
  /\ arg.content = <<"1", Label, FullWidthColon, "1", "1">>
  /\ ret.value = <<11, 1>>

\* C15: callWebSearchApi turns a raw payload {search_result: [i1..in],
\* request_id} into a result list of n items in payload order, item k with
\* rank k, its snippet the item's snippet or else its content, total_count n
\* and the request_id carried over; a payload already of the shape
\* {results: [...]} is returned unchanged.
C15_RawPayloadNormalized ==
  (Applied("callWebSearchApi") /\ arg.ok) =>
    LET data == arg.data
    IN IF "search_result" \in DOMAIN data
       THEN LET items == data.search_result
                out == ret.value
            IN /\ Len(out.results) = Len(items)
               /\ \A k \in 1..Len(items) :
                    /\ out.results[k].rank = k
                    /\ out.results[k].title = items[k].title
                    /\ "url" \in DOMAIN items[k] => out.results[k].url = items[k].url
                    /\ out.results[k].snippet =
                         (IF "snippet" \in DOMAIN items[k] /\ items[k].snippet # ""
                          THEN items[k].snippet
                          ELSE IF "content" \in DOMAIN items[k]
                               THEN items[k].content
                               ELSE "")
               /\ out.total_count = Len(items)
               /\ ("request_id" \in DOMAIN data /\ data.request_id # "")
                    => out.request_id = data.request_id
       ELSE ret.value = data

\* two raw items, the first with a snippet, the second with a content only
C15_Witness ==
  /\ Applied("callWebSearchApi")
  /\ arg.ok
  /\ "search_result" \in DOMAIN arg.data
  /\ "request_id" \in DOMAIN arg.data
  /\ Len(arg.data.search_result) = 2
  /\ DOMAIN arg.data.search_result[2] = {"title", "content"}
  /\ ret.value.results[1].snippet = "s"
  /\ ret.value.results[2].snippet = "c"
  /\ ret.value.results[2].rank = 2
  /\ ret.value.request_id = "r"

\* a payload of the shape {results, total_count, request_id} comes back as is
C15_WitnessShaped ==
  /\ Applied("callWebSearchApi")
  /\ arg.ok
  /\ DOMAIN arg.data = {"results", "total_count", "request_id"}
  /\ Len(arg.data.results) = 1
  /\ ret.value = arg.data

\* the lines of t that hold a character other than whitespace, as the
\* positions <<first, last>> of their first and last such character
NonBlankLines(t) ==
  {l \in (1..Len(t)) \X (1..Len(t)) :
     /\ l[1] <= l[2]
     /\ t[l[1]] \notin Whitespace \cup {Newline}
     /\ t[l[2]] \notin Whitespace \cup {Newline}
     /\ \A k \in l[1]..l[2] : t[k] # Newline
     /\ \A k \in 1..(l[1] - 1) :
          (\A j \in k..(l[1] - 1) : t[j] # Newline) => t[k] \in Whitespace
     /\ \A k \in (l[2] + 1)..Len(t) :
          (\A j \in (l[2] + 1)..k : t[j] # Newline) => t[k] \in Whitespace}

\* the queries joined by newlines
RECURSIVE JoinLines(_)
JoinLines(qs) ==
  IF qs = <<>> THEN <<>>
  ELSE IF Len(qs) = 1 THEN qs[1]
       ELSE qs[1] \o <<Newline>> \o JoinLines(Tail(qs))

\* C17: parseBatchQueries returns, in the original order and with duplicates
\* kept, the trimmed text of every line that is non-empty after trimming; no
\* returned query is empty or starts or ends with whitespace; parsing the
\* returned queries joined by newlines gives the same list again.
C17_TrimmedNonBlankLinesInOrder ==
  Applied("parseBatchQueries") =>
    LET t == arg.batchText
        out == ret.value
        lines == NonBlankLines(t)
    IN /\ Len(out) = Cardinality(lines)
       /\ \A l \in lines :
            out[Cardinality({m \in lines : m[1] <= l[1]})] = SubSeq(t, l[1], l[2])
       /\ \A k \in 1..Len(out) :
            /\ out[k] # <<>>
            /\ out[k][1] \notin Whitespace
            /\ out[k][Len(out[k])] \notin Whitespace
       /\ parseBatchQueries(JoinLines(out)) = out

\* "a", a blank line, "a" again and a final newline: the duplicate is kept
C17_Witness ==
  /\ Applied("parseBatchQueries")
  /\ arg.batchText = <<"a", Newline, " ", Newline, "a", Newline>>
  /\ ret.value = << <<"a">>, <<"a">> >>

\* a line written as the prefix "data: " followed by a JSON object that has a
\* content delta
CarriesDelta(line) ==
  /\ ~line.indent
  /\ line.prefix = "data: "
  /\ line.body.kind = "delta"

\* the places <<chunk, line>> of the lines that carry a delta
DeltaPlaces(chunks) ==
  {pl \in (1..Len(chunks)) \X (1..MaxStream) :
     /\ pl[2] <= Len(chunks[pl[1]])
     /\ CarriesDelta(chunks[pl[1]][pl[2]])}

Before(a, b) == a[1] < b[1] \/ (a[1] = b[1] /\ a[2] <= b[2])

\* C19: in streamed mode callEvaluationApi invokes the observer once per
\* received chunk, in arrival order, with the chunk text, and the answer it
\* returns is the in-order concatenation of the content deltas of all data:
\* lines that parse as JSON; a data: line that fails to parse, has no
\* content delta or is [DONE] adds nothing and stops nothing.
C19_ObserverPerChunkAnswerFromDeltas ==
  fn = "callEvaluationApi" =>
    /\ sseMessages = SubSeq(arg.chunks, 1, chunksRead)
    /\ ret # None =>
         LET places == DeltaPlaces(arg.chunks)
         IN /\ chunksRead = Len(arg.chunks)
            /\ Len(ret.value) = Cardinality(places)
            /\ \A pl \in places :
                 ret.value[Cardinality({o \in places : Before(o, pl)})]
                   = arg.chunks[pl[1]][pl[2]].body.content

\* a chunk with a delta and [DONE], then a chunk with another delta
C19_Witness ==
  /\ Applied("callEvaluationApi")
  /\ Len(arg.chunks) = 2
  /\ Len(arg.chunks[1]) = 2
  /\ arg.chunks[1][2].body = Done /\ arg.chunks[1][2].prefix = "data: "
  /\ ret.value = <<"x", "y">>
  /\ Len(sseMessages) = 2

\* --------------------------------------------- claims, the routine again
\* the search requests sent for query q to engine e
RequestsFor(q, e) ==
  Cardinality({i \in DOMAIN searchRequests :
                 searchRequests[i] = [query |-> q, engine |-> e]})

\* C16: a call of callWebSearchApi sends exactly one HTTP request and never
\* retries; when the response is not 2xx the call fails and returns no
\* result; a run sends exactly one search request per (query, engine) pair.
C16_OneSearchRequestPerPair ==
  \A q \in QueryIndices, e \in EngineIndices :
    /\ RequestsFor(q, e) <= 1
    /\ (SearchSucceeded(q, e) \/ SearchFailed(q, e)) => RequestsFor(q, e) = 1
    /\ SearchFailed(q, e) =>
         /\ ~SearchSucceeded(q, e)
         /\ NotifiedFor(q, e) = {}
         /\ \A r \in 1..rounds : ResultsFor(q, e, r) = {}
    /\ status = "returned" => RequestsFor(q, e) = 1

\* a returned run of two queries and two engines with a failed search: four
\* requests
C16_Witness ==
  /\ status = "returned"
  /\ Len(queries) = 2 /\ Len(searchEngines) = 2
  /\ Len(searchRequests) = 4
  /\ \E q \in QueryIndices, e \in EngineIndices : SearchFailed(q, e)

\* C20: buildEvaluationPrompt raises an error for an empty or missing result
\* list, so for an engine whose search succeeded with zero results no
\* scoring request is ever sent, in any round or dimension.
C20_NoScoringRequestForEmptyResults ==
  \A j \in DOMAIN evalLog :
    /\ SearchSucceeded(evalLog[j].query, evalLog[j].engine)
    /\ \A i \in NotifiedFor(evalLog[j].query, evalLog[j].engine) :
         searchResultLog[i].searchResults > 0

\* a returned run in which a search succeeded with zero results: the engine
\* has its result of the round, with score 0, and another engine was scored
C20_Witness ==
  /\ status = "returned"
  /\ \E i \in DOMAIN results :
       /\ results[i].searchResults = 0
       /\ DOMAIN results[i].scores # {}
       /\ \A n \in DOMAIN results[i].scores : results[i].scores[n] = 0
  /\ evalLog # <<>>

\* ------------------------------------------------------ claims, the panel
\* an input startEvaluation rejects: blank query input, no engine, no
\* enabled dimension, or a configuration with a blank field
Rejected(input) ==
  \/ /\ \A k \in DOMAIN input.singleQuery : input.singleQuery[k] \in Whitespace
     /\ \A k \in DOMAIN input.batchQueries : input.batchQueries[k] \in Whitespace
  \/ input.searchEngines = <<>>
  \/ \A k \in DOMAIN input.dimensions : ~input.dimensions[k].enabled
  \/ \E f \in DOMAIN input.apiConfig :
       \A k \in DOMAIN input.apiConfig[f] : input.apiConfig[f][k] \in Whitespace

\* C18: startEvaluation aborts before the batch starts when the query input
\* is blank, the engine list is empty, no dimension is enabled or the
\* configuration is invalid: it sets an error message, issues no search or
\* scoring call, leaves isEvaluating false and leaves the previous results,
\* search results and progress unchanged.
C18_RejectedStartChangesOnlyMessage ==
  [][\A input \in PanelInputs :
       (startEvaluation(input) /\ Rejected(input)) =>
          /\ errorMessage' # <<>>
          /\ isEvaluating' = FALSE
          /\ UNCHANGED <<searchRequests, evalLog, pc, status>>
          /\ UNCHANGED <<evaluationResults, pageSearchResults, evaluationProgress>>]_vars

\* a rejected press after a completed evaluation: its results, search
\* results and progress are still shown
C18_Witness ==
  /\ errorMessage # <<>>
  /\ ~isEvaluating
  /\ evaluationResults # <<>>
  /\ pageSearchResults # <<>>
  /\ evaluationProgress # None


\* the last onProgress invocation of the run carries 100
FinalProgressEmitted ==
  /\ progressLog # <<>>
  /\ progressLog[Len(progressLog)].progress = 100
  /\ evaluationProgress.progress = 100

\* C21: a started evaluation runs to completion: when every search call and
\* every scoring call is eventually answered, the routine eventually emits
\* the final progress notification and returns, and startEvaluation then
\* eventually resets isEvaluating.
C21_StartedRunCompletes ==
  /\ (status = "running") ~> (status = "returned" /\ FinalProgressEmitted)
  /\ isEvaluating ~> (~isEvaluating /\ status = "returned" /\ evaluationResults = results)

\* a run with a failed scoring call has returned and isEvaluating is reset
C21_Witness ==
  /\ ~isEvaluating
  /\ status = "returned"
  /\ FinalProgressEmitted
  /\ evaluationResults = results
  /\ \E i \in DOMAIN replyLog : \E k \in DOMAIN replyLog[i] : ~replyLog[i][k].ok


\* ------------------------------------------ claims, counting and order
\* the scoring of every enabled dimension of the round behind results[i] failed
ScoringFailed(i) ==
  /\ replyLog[i] # <<>>
  /\ \A k \in DOMAIN replyLog[i] : ~replyLog[i][k].ok

\* C22: every (query, engine whose search succeeded, round) advances
\* completedTasks by exactly one, whether its scoring succeeded or failed:
\* the counter only moves by one, at the end of a round, together with at
\* most one result; the result of a round whose scoring failed has score 0
\* for every dimension and weighted score 0; and when the run returns the
\* counter is the number of such combinations.
C22_EveryRoundCountedOnce ==
  /\ [][/\ completedTasks' \in {completedTasks, completedTasks + 1}
        /\ completedTasks' = completedTasks + 1 =>
             /\ pc = "dimension" /\ pc' # "dimension"
             /\ SearchSucceeded(qi, ei) /\ round \in 1..rounds
             /\ Len(results') \in {Len(results), Len(results) + 1}
        /\ (pc \in {"dimension", "evalWait"} /\ pc' \notin {"dimension", "evalWait"}) =>
             completedTasks' = completedTasks + 1]_vars
  /\ [](\A i \in DOMAIN results :
          ScoringFailed(i) =>
            /\ \A n \in DOMAIN results[i].scores : results[i].scores[n] = 0
            /\ results[i].weightedScore = <<0, 1, 0>>)
  /\ [](status = "returned" =>
          completedTasks = rounds * Cardinality({o \in searchOutcomes : o.ok}))

\* a returned run with a failed search, a round whose scoring call failed
\* and a round that was scored: both rounds are counted
C22_Witness ==
  /\ status = "returned"
  /\ \E o \in searchOutcomes : ~o.ok
  /\ completedTasks = 2
  /\ \E i, j \in DOMAIN results :
       /\ ScoringFailed(i) /\ results[i].searchResults > 0
       /\ \E k \in DOMAIN replyLog[j] : replyLog[j][k].ok /\ replyLog[j][k].score > 0


\* ------------------------------------------- claims, the configuration
\* a text that is empty or holds white space only
Blank(t) == \A k \in DOMAIN t : t[k] \in Whitespace

ConfigFields == {"apiUrl", "modelApiKey", "modelKey", "websearchUrl"}

\* C23: validateEvaluationConfig only makes non-empty checks: isValid is true
\* exactly when the scoring endpoint URL, the API key, the model identifier
\* and the search endpoint URL are all non-blank, and the error list has
\* exactly one message per blank field and none for another field.
C23_ValidOnlyWhenNoFieldBlank ==
  Applied("validateEvaluationConfig") =>
    LET errors == ret.value.errors
    IN /\ ret.value.isValid <=> \A f \in ConfigFields : ~Blank(arg.config[f])
       /\ \A f \in ConfigFields :
            Cardinality({i \in DOMAIN errors : errors[i] = f})
              = IF Blank(arg.config[f]) THEN 1 ELSE 0
       /\ \A i \in DOMAIN errors : errors[i] \in ConfigFields

\* an empty URL and a key of blanks: two messages, the other fields pass
C23_Witness ==
  /\ Applied("validateEvaluationConfig")
  /\ arg.config.apiUrl = <<>>
  /\ arg.config.modelApiKey = <<" ", " ">>
  /\ arg.config.modelKey = <<"a">>
  /\ arg.config.websearchUrl = <<" ", "a">>
  /\ ~ret.value.isValid
  /\ ret.value.errors = <<"apiUrl", "modelApiKey">>


\* the position of an id in the query list or of an engine id in the engine list
QueryIndexOf(query) == CHOOSE q \in QueryIndices : queries[q] = query
EngineIndexOf(id) == CHOOSE e \in EngineIndices : searchEngines[e].id = id

\* result a comes before result b: by query, then by engine, then by round
ComesBefore(a, b) ==
  LET qa == QueryIndexOf(a.query)
      qb == QueryIndexOf(b.query)
      ea == EngineIndexOf(a.engineId)
      eb == EngineIndexOf(b.engineId)
  IN \/ qa < qb
     \/ qa = qb /\ ea < eb
     \/ qa = qb /\ ea = eb /\ a.round < b.round

\* the scores map that follows from the outcomes of the scoring calls of one
\* round: per name the outcome of the last enabled dimension of that name
ScoresOfReplies(rs) ==
  LET ed == EnabledDimensions(dimensions)
      LastOf(n) == CHOOSE k \in 1..Len(ed) :
                     ed[k].name = n /\ \A k2 \in (k + 1)..Len(ed) : ed[k2].name # n
  IN [n \in {ed[k].name : k \in 1..Len(ed)} |->
        IF rs[LastOf(n)].ok THEN rs[LastOf(n)].score ELSE 0]

\* the number of items the search of engine id for the query answered
ItemsAnswered(query, id) ==
  LET i == CHOOSE j \in DOMAIN searchResultLog :
             searchResultLog[j].query = query /\ searchResultLog[j].engineId = id
  IN searchResultLog[i].searchResults

\* C24: the order of the result list does not depend on the order in which
\* the parallel searches complete: results are ordered by query in input
\* order, then by engine in configured order, then by round (each result
\* comes after the one before it), and every result is fixed by the inputs
\* and the outcomes of the calls of its round.
C24_ResultOrderIndependentOfCompletion ==
  /\ \A i \in 2..Len(results) : ComesBefore(results[i - 1], results[i])
  /\ \A i \in DOMAIN results :
       /\ results[i].searchResults = ItemsAnswered(results[i].query, results[i].engineId)
       /\ results[i].scores = ScoresOfReplies(replyLog[i])
       /\ results[i].weightedScore =
            calculateWeightedScore(ScoresOfReplies(replyLog[i]), dimensions)

\* the search of the second engine completed before that of the first; the
\* results of the first engine come first all the same
C24_Witness ==
  /\ status = "returned"
  /\ Len(searchEngines) = 2
  /\ Len(searchResultLog) = 2
  /\ searchResultLog[1].engineId = searchEngines[2].id
  /\ searchResultLog[2].engineId = searchEngines[1].id
  /\ Len(results) = 2
  /\ results[1].engineId = searchEngines[1].id
  /\ results[2].engineId = searchEngines[2].id


\* C25: across the onProgress invocations of one run the reported progress
\* is an integer in 0..100 and never decreases from one invocation to the
\* next, also when searches failed or no combination is planned.
C25_ProgressWithinRangeNeverDecreases ==
  \A i \in DOMAIN progressLog :
    /\ progressLog[i].progress \in 0..100
    /\ i > 1 => progressLog[i - 1].progress <= progressLog[i].progress

\* a returned run of four planned combinations of which two were skipped
\* after a failed search: 0, 25, then the final 100
C25_Witness ==
  /\ status = "returned"
  /\ totalTasks = 4
  /\ \E o \in searchOutcomes : ~o.ok
  /\ [i \in DOMAIN progressLog |-> progressLog[i].progress] = <<0, 25, 100>>

\* a returned run in which nothing was planned: the final 100 alone
C25_WitnessNothingPlanned ==
  /\ status = "returned"
  /\ totalTasks = 0
  /\ [i \in DOMAIN progressLog |-> progressLog[i].progress] = <<100>>


\* ---------------------------------------------- claims, the dimensions
\* C26 as stated: for every result produced after any sequence of dimension
\* edits the keys of its scores map are exactly the names of the enabled
\* dimensions, and its weighted score is the weighted score of the enabled
\* dimensions alone: a disabled dimension's weight enters neither sum.
C26_WeightedScoreFromEnabledOnly ==
  \A i \in DOMAIN results :
    LET ed == EnabledDimensions(dimensions)
    IN /\ DOMAIN results[i].scores = {ed[k].name : k \in 1..Len(ed)}
       /\ results[i].weightedScore = calculateWeightedScore(results[i].scores, ed)


\* ------------------------------------------------ claims, both routines
\* C27: runBatchEvaluation (sequential searches) and
\* runOptimizedBatchEvaluation (parallel searches) are equivalent on results:
\* for the same queries, engines with distinct ids, dimensions and rounds and
\* the same outcome of every search and scoring call, both return the same
\* list of results in the same order and make the same onProgress
\* invocations in the same order.
C27_LegacyEquivalentOnResults ==
  (Legacy /\ status = "returned") =>
    /\ results = arg.results
    /\ progressLog = arg.progressLog
    /\ ret.value = arg.results

\* both routines have returned two results after a failed search and a
\* failed scoring call
C27_Witness ==
  /\ Legacy
  /\ status = "returned"
  /\ Len(results) = 2
  /\ Len(searchEngines) = 2
  /\ \E o \in searchOutcomes : ~o.ok
  /\ \E i \in DOMAIN replyLog : \E k \in DOMAIN replyLog[i] : ~replyLog[i][k].ok


\* ------------------------------------------------ claims, one run at a time
\* C28: at most one evaluation run is in progress at any time.  isEvaluating
\* is true from the moment a start passes validation until the run has ended
\* and the panel has taken its results; while it is true no press of the
\* start button has any effect, so the run in progress is never restarted
\* and its inputs never change; it is set only by a start that finds it
\* false and reset only when the run has returned.
C28_OneRunAtATime ==
  /\ [](status = "running" => isEvaluating)
  /\ [](isEvaluating => status \in {"running", "returned"})
  /\ [](isEvaluating => \A input \in PanelInputs : ~ENABLED startEvaluation(input))
  /\ [][isEvaluating =>
          /\ queries' = queries
          /\ searchEngines' = searchEngines
          /\ dimensions' = dimensions
          /\ rounds' = rounds
          /\ Len(searchRequests') >= Len(searchRequests)
          /\ Len(progressLog') >= Len(progressLog)
          /\ Len(results') >= Len(results)
          /\ (~isEvaluating' => status = "returned" /\ evaluationResults' = results)]_vars
  /\ [][(~isEvaluating /\ isEvaluating') =>
          /\ status' = "running"
          /\ results' = <<>>
          /\ searchRequests' = <<>>]_vars

\* a run is in progress, has scored a round, and the button is disabled
C28_Witness ==
  /\ isEvaluating
  /\ status = "running"
  /\ Len(results) >= 1
  /\ \A input \in PanelInputs : ~ENABLED startEvaluation(input)


\* ------------------------------------------------ claims, query by query
\* a search of the current query has been sent and is not answered yet
SearchOutstanding == \E e \in DOMAIN searchResults : searchResults[e].st = "pending"

\* C29: the queries are processed one after another.  Every search request
\* is for the current query or an earlier one, the outstanding ones are all
\* for the current query, and no scoring call is in flight while a search is
\* outstanding; searches are sent only when no search and no scoring call is
\* outstanding and every round of every engine that answered an earlier
\* query has been counted.
C29_QueriesOneAfterAnother ==
  /\ [](\A i \in DOMAIN searchRequests : searchRequests[i].query <= qi)
  /\ [](SearchOutstanding =>
          /\ pc = "searching"
          /\ evalInFlight = 0
          /\ \A o \in searchOutcomes : o.ok /\ o.query < qi =>
                Cardinality({i \in DOMAIN evalLog :
                               /\ evalLog[i].query = o.query
                               /\ evalLog[i].engine = o.engine}) <=
                  rounds * Len(EnabledDimensions(dimensions)))
  /\ [](evalInFlight > 0 => ~SearchOutstanding /\ evalInFlight = 1)
  /\ [][searchRequests' # searchRequests =>
          /\ ~SearchOutstanding
          /\ evalInFlight = 0
          /\ \A i \in DOMAIN searchRequests : searchRequests[i].query < qi
          /\ \A i \in DOMAIN searchRequests' : searchRequests'[i].query <= qi
          /\ completedTasks =
               rounds * Cardinality({o \in searchOutcomes : o.ok})]_vars

\* a search of the second query is outstanding after both engines were
\* scored for the first
C29_Witness ==
  /\ Len(queries) = 2
  /\ qi = 2
  /\ SearchOutstanding
  /\ Cardinality({o \in searchOutcomes : o.ok /\ o.query = 1}) = 2
  /\ Len(results) = 2 * rounds


\* ------------------------------------------------ claims, the whole call
\* C30: callEvaluationApi consumes the response as a stream exactly when it
\* sent stream = true in the request body: a response it has consumed was
\* read incrementally and merged if the body said stream: true, and parsed
\* as one JSON document if it said stream: false.
C30_StreamReadExactlyWhenRequested ==
  ret # None =>
    (RequestBody(arg.request, arg.onSseMessage).stream <=> ret.read = "stream")

====
